---- MODULE Spec2Model ----
(***************************************************************************)
(* Employee console of the vendor marketplace: the category hierarchy      *)
(* store (categoryApi.js), the category dialog (AddEditCategoryDialog.jsx) *)
(* and the vendor onboarding flow (VendorOnboarding.jsx).                  *)
(*                                                                         *)
(* Strings are sequences of one-character strings; " " is the whitespace   *)
(* character.  JavaScript's null is the value NULL, which is no string     *)
(* over the alphabets used here.                                           *)
(***************************************************************************)
EXTENDS Integers, Sequences, FiniteSets, TLC

\* ------------------------------------------------------------------ bounds

\* rows the store ever inserts into one category table
MaxRows == 2
\* calls the clients begin in one behaviour
MaxCalls == 3
\* onboarding forms submitted in one behaviour
MaxSubmits == 2
\* characters of the texts given to the sanitizers
MaxLen == 3
\* the largest of the small numbers given to pctChange
MaxNum == 8
\* rows of the leads table
MaxLeads == 3
\* rows of the lead_purchases table
MaxPurchases == 2
\* the messages of a conversation
MaxMessages == 2

\* ----------------------------------------------------------------- strings

SP == " "
TAB == "\t"
NULL == <<"null">>

\* the characters \s matches and trim() removes
Whitespace == {SP, TAB}

RECURSIVE TrimStart(_)
TrimStart(s) ==
    IF s # <<>> /\ Head(s) \in Whitespace THEN TrimStart(Tail(s)) ELSE s

RECURSIVE TrimEnd(_)
TrimEnd(s) ==
    IF s # <<>> /\ s[Len(s)] \in Whitespace THEN TrimEnd(SubSeq(s, 1, Len(s) - 1)) ELSE s

\* String.prototype.trim
Trim(s) == TrimEnd(TrimStart(s))

\* String(v || ''): null and undefined become the empty string
StrOrEmpty(v) == IF v = NULL THEN <<>> ELSE v

\* ------------------------------------------------------------------- store

Digits == <<"1", "2", "3", "4", "5", "6", "7", "8", "9">>

\* the id the store gives the n-th row inserted into a table
IdOf(n) == <<Digits[n]>>

RowIds == {IdOf(n) : n \in 1..MaxRows}

VARIABLES
    head_categories,      \* id -> [image_url]
    sub_categories,       \* id -> [head_category_id, image_url]
    micro_categories,     \* id -> [sub_category_id, image_url]
    micro_category_meta,  \* the micro category ids that have a meta side-row
    nextId,               \* per table, the rows inserted so far
    metaColumn,           \* the name of the meta table's linking column
    input,                \* the categoryData and upload response of the calls
    calls,                \* the calls begun so far
    cl,                   \* per client: the call in flight and its result
    vo,                   \* the VendorOnboarding page: its state and handler
    authUsers,            \* the ids of the authentication identities
    vendors,              \* the vendor profiles: [user_id, vendor_id]
    submits,              \* the onboarding forms submitted so far
    dlg,                  \* the category dialog: its props and its state
    fn,                   \* the pure functions: the arguments and the results
    leads,                \* the leads table: rows [status, created_at]
    lead_purchases,       \* rows [amount, purchase_date, created_at]
    purchaseSchema,       \* the date column lead_purchases has besides created_at
    stats,                \* the GET /sales/stats requests
    employees,            \* the employees table: rows [user_id, email, role]
    vendor_plans,         \* the vendor_plans table
    req                   \* the request to another route of the router

storeVars == <<head_categories, sub_categories, micro_categories,
               micro_category_meta, nextId, metaColumn>>

apiVars == <<storeVars, input, calls, cl>>

vendorVars == <<vo, authUsers, vendors, submits>>

dialogVars == <<dlg>>

fnVars == <<fn>>

salesVars == <<leads, lead_purchases, purchaseSchema, stats, employees, vendor_plans, req>>

\* what the category API, the onboarding page and the dialog leave alone
nonApiVars == <<vendorVars, dialogVars, fnVars, salesVars>>
nonVendorVars == <<apiVars, dialogVars, fnVars, salesVars>>
nonDialogVars == <<apiVars, vendorVars, fnVars, salesVars>>
nonFnVars == <<apiVars, vendorVars, dialogVars, salesVars>>
nonSalesVars == <<apiVars, vendorVars, dialogVars, fnVars>>

vars == <<apiVars, vendorVars, dialogVars, fnVars, salesVars>>

Clients == {"c1", "c2"}

\* what a store statement can answer besides doing its work: an error
\* object, or nothing matched because row-level security hid the rows
ReadFaults == {"none", "error"}
WriteFaults == {"none", "error", "blocked"}

InsertRow(t, id, row) == [x \in DOMAIN t \cup {id} |-> IF x = id THEN row ELSE t[x]]

DeleteRows(t, ids) == [x \in DOMAIN t \ ids |-> t[x]]

SetImage(t, ids, url) ==
    [x \in DOMAIN t |-> IF x \in ids THEN [t[x] EXCEPT !.image_url = url] ELSE t[x]]

\* .eq('id', v): the rows of table t whose id is v
MatchId(t, v) == {x \in DOMAIN t : x = v}

\* .eq('head_category_id', v)
SubsOfHead(v) == {x \in DOMAIN sub_categories : sub_categories[x].head_category_id = v}

\* .eq('sub_category_id', v)
MicrosOfSub(v) == {x \in DOMAIN micro_categories : micro_categories[x].sub_category_id = v}

\* ------------------------------------------------------------ image upload

CATEGORY_IMAGE_MIN_BYTES == 100 * 1024
CATEGORY_IMAGE_MAX_BYTES == 800 * 1024

NoFile == [type |-> NULL, size |-> 0 - 1]

LowerAlphabet ==
    <<"a", "b", "c", "d", "e", "f", "g", "h", "i", "j", "k", "l", "m",
      "n", "o", "p", "q", "r", "s", "t", "u", "v", "w", "x", "y", "z">>
UpperAlphabet ==
    <<"A", "B", "C", "D", "E", "F", "G", "H", "I", "J", "K", "L", "M",
      "N", "O", "P", "Q", "R", "S", "T", "U", "V", "W", "X", "Y", "Z">>

LowerOf(ch) ==
    IF \E i \in DOMAIN UpperAlphabet : UpperAlphabet[i] = ch
      THEN LowerAlphabet[CHOOSE i \in DOMAIN UpperAlphabet : UpperAlphabet[i] = ch]
    ELSE ch

\* String.prototype.toLowerCase
ToLowerCase(s) == [i \in 1..Len(s) |-> LowerOf(s[i])]

\* String.prototype.startsWith
StartsWith(s, prefix) ==
    Len(s) >= Len(prefix) /\ SubSeq(s, 1, Len(prefix)) = prefix

ImagePrefix == <<"i", "m", "a", "g", "e", "/">>

\* what the upload endpoint answers: whether the file could be read into a
\* data URL, response.ok, payload.success and payload.publicUrl
UploadResponse(readOk, ok, success, publicUrl) ==
    [readOk |-> readOk, ok |-> ok, success |-> success, publicUrl |-> publicUrl]

\* uploadCategoryImage without its last check, if (!publicUrl) throw ...
uploadCategoryImageAnyUrl(file, resp) ==
    LET fileType == ToLowerCase(Trim(StrOrEmpty(file.type)))
        size == IF file.size < 0 THEN 0 ELSE file.size
        publicUrl == Trim(StrOrEmpty(resp.publicUrl))
    IN  IF ~StartsWith(fileType, ImagePrefix)
          THEN [threw |-> TRUE, url |-> NULL, sent |-> FALSE]
        ELSE IF size < CATEGORY_IMAGE_MIN_BYTES
          THEN [threw |-> TRUE, url |-> NULL, sent |-> FALSE]
        ELSE IF size > CATEGORY_IMAGE_MAX_BYTES
          THEN [threw |-> TRUE, url |-> NULL, sent |-> FALSE]
        ELSE IF ~resp.readOk
          THEN [threw |-> TRUE, url |-> NULL, sent |-> FALSE]
        ELSE IF ~resp.ok \/ ~resp.success
          THEN [threw |-> TRUE, url |-> NULL, sent |-> TRUE]
        ELSE [threw |-> FALSE, url |-> publicUrl, sent |-> TRUE]

\* uploadCategoryImage: [threw, url, sent]; sent tells whether the request
\* reached the endpoint
uploadCategoryImage(file, resp) ==
    LET fileType == ToLowerCase(Trim(StrOrEmpty(file.type)))
        size == IF file.size < 0 THEN 0 ELSE file.size
        publicUrl == Trim(StrOrEmpty(resp.publicUrl))
    IN  IF ~StartsWith(fileType, ImagePrefix)
          THEN [threw |-> TRUE, url |-> NULL, sent |-> FALSE]
        ELSE IF size < CATEGORY_IMAGE_MIN_BYTES
          THEN [threw |-> TRUE, url |-> NULL, sent |-> FALSE]
        ELSE IF size > CATEGORY_IMAGE_MAX_BYTES
          THEN [threw |-> TRUE, url |-> NULL, sent |-> FALSE]
        ELSE IF ~resp.readOk
          THEN [threw |-> TRUE, url |-> NULL, sent |-> FALSE]
        ELSE IF ~resp.ok \/ ~resp.success
          THEN [threw |-> TRUE, url |-> NULL, sent |-> TRUE]
        ELSE IF publicUrl = <<>>
          THEN [threw |-> TRUE, url |-> NULL, sent |-> TRUE]
        ELSE [threw |-> FALSE, url |-> publicUrl, sent |-> TRUE]

\* the image resolution with the pasted URL taking precedence over the file
ResolveImagePastedFirst(data, resp) ==
    LET pasted == Trim(StrOrEmpty(data.image_url))
        up == uploadCategoryImage(data.imageFile, resp)
        hasFile == data.imageFile # NoFile
    IN  IF hasFile /\ up.threw
          THEN [threw |-> TRUE, url |-> NULL, uploads |-> 1]
        ELSE [threw |-> FALSE,
              url |-> IF data.removeImage THEN NULL
                      ELSE IF pasted # <<>> THEN pasted
                      ELSE IF hasFile THEN up.url ELSE NULL,
              uploads |-> IF hasFile THEN 1 ELSE 0]

\* the image resolution of create and update:
\*   let finalImageUrl = (image_url || '').trim() || null;
\*   if (imageFile) finalImageUrl = await uploadCategoryImage(...);
\*   if (removeImage) finalImageUrl = null;
\* [threw, url, uploads]: uploads is the number of upload calls made
ResolveImage(data, resp) ==
    LET pasted == Trim(StrOrEmpty(data.image_url))
        url0 == IF pasted = <<>> THEN NULL ELSE pasted
        up == uploadCategoryImage(data.imageFile, resp)
        hasFile == data.imageFile # NoFile
        url1 == IF hasFile THEN up.url ELSE url0
    IN  IF hasFile /\ up.threw
          THEN [threw |-> TRUE, url |-> NULL, uploads |-> 1]
        ELSE [threw |-> FALSE,
              url |-> IF data.removeImage THEN NULL ELSE url1,
              uploads |-> IF hasFile THEN 1 ELSE 0]

\* ----------------------------------------------------------------- clients

Idle == [pc |-> "idle", op |-> "none", id |-> <<>>, out |-> "none", count |-> 0,
         stmts |-> {}, ret |-> NULL, img |-> NULL, affected |-> 0,
         answer |-> "none"]

\* client c begins call op and is suspended at the await of step pc
Await(c, op, pc, id, stmts) ==
    cl' = [cl EXCEPT ![c] = [Idle EXCEPT !.pc = pc, !.op = op, !.id = id,
                                         !.stmts = stmts]]

\* the call of client c ends: it returns (out = "ok") or raises
Finish(c, op, out, fields) ==
    cl' = [cl EXCEPT ![c] = [x \in DOMAIN Idle |->
              IF x \in DOMAIN fields THEN fields[x]
              ELSE IF x = "op" THEN op
              ELSE IF x = "out" THEN out
              ELSE Idle[x]]]

Begin(c) ==
    /\ cl[c].pc = "idle"
    /\ calls < MaxCalls
    /\ calls' = calls + 1

UploadStmts(r) == IF r.uploads > 0 THEN {"upload"} ELSE {}

NoFields == <<>>

\* ensureRowExists without its last line, if (!data?.id) throw ...
ensureRowExistsUnchecked(t, id, fault) ==
    LET categoryId == Trim(StrOrEmpty(id))
    IN  IF categoryId = <<>> THEN [out |-> "NotFound", stmts |-> {}, answer |-> "none"]
        ELSE IF fault = "error"
          THEN [out |-> "StoreError", stmts |-> {"select"}, answer |-> fault]
        ELSE [out |-> "ok", stmts |-> {"select"}, answer |-> fault]

\* ensureRowExists(table, id, notFoundMessage): "ok", or what it throws.
\* A blank id throws before any query; the probe is
\* select('id').eq('id', categoryId).maybeSingle()
ensureRowExists(t, id, fault) ==
    LET categoryId == Trim(StrOrEmpty(id))
    IN  IF categoryId = <<>> THEN [out |-> "NotFound", stmts |-> {}, answer |-> "none"]
        ELSE IF fault = "error"
          THEN [out |-> "StoreError", stmts |-> {"select"}, answer |-> fault]
        ELSE IF MatchId(t, categoryId) = {}
          THEN [out |-> "NotFound", stmts |-> {"select"}, answer |-> fault]
        ELSE [out |-> "ok", stmts |-> {"select"}, answer |-> fault]

\* the child check with an off-by-one threshold
HasChildrenMoreThanOne(rows) == Cardinality(rows) > 1

\* subCats && subCats.length > 0
HasChildren(rows) == Cardinality(rows) > 0

\* a message that always reports one child
ChildCountOne(rows) == 1

\* the count in the 'Cannot delete' message, ${subCats.length}
ChildCount(rows) == Cardinality(rows)

\* delete without the check of the returned rows
NoRowDeletedUnchecked(data) == FALSE

\* !data || data.length === 0
NoRowDeleted(data) == Cardinality(data) = 0

\* a store that reports the row asked for as written whether or not it
\* is there
AffectedAsAsked(t, id, fault) == IF fault = "none" THEN {id} ELSE {}

\* the rows an update or delete statement .eq('id', id) acts on
Affected(t, id, fault) == IF fault = "none" THEN MatchId(t, id) ELSE {}

\* ---------------------------------------------------------- head categories

\* headCategoryApi.create
HeadCreate(c, fault) ==
    /\ Begin(c)
    /\ nextId.head < MaxRows
    /\ LET r == ResolveImage(input.data, input.resp)
           id == IdOf(nextId.head + 1)
       IN  IF r.threw
             THEN /\ Finish(c, "head.create", "UploadError", [stmts |-> UploadStmts(r)])
                  /\ UNCHANGED <<head_categories, nextId>>
           ELSE IF fault = "error"
             THEN /\ Finish(c, "head.create", "StoreError",
                            [answer |-> fault, stmts |-> UploadStmts(r) \cup {"insert"}, img |-> r.url])
                  /\ UNCHANGED <<head_categories, nextId>>
           ELSE /\ head_categories' = InsertRow(head_categories, id, [image_url |-> r.url])
                /\ nextId' = [nextId EXCEPT !.head = @ + 1]
                /\ Finish(c, "head.create", "ok",
                          [answer |-> fault, stmts |-> UploadStmts(r) \cup {"insert"}, img |-> r.url,
                           ret |-> id, affected |-> 1])
    /\ UNCHANGED <<sub_categories, micro_categories, micro_category_meta, metaColumn, input>>
    /\ UNCHANGED nonApiVars

\* headCategoryApi.update up to the await of ensureRowExists
HeadUpdate(c, id, fault) ==
    /\ Begin(c)
    /\ LET categoryId == Trim(StrOrEmpty(id))
           e == ensureRowExists(head_categories, categoryId, fault)
       IN  IF e.out = "ok"
             THEN Await(c, "head.update", "head.update.write", categoryId, e.stmts)
           ELSE Finish(c, "head.update", e.out, [answer |-> e.answer, stmts |-> e.stmts, id |-> categoryId])
    /\ UNCHANGED <<storeVars, input>>
    /\ UNCHANGED nonApiVars

\* headCategoryApi.update after the existence probe: the image resolution
\* and the update statement .update({...}).eq('id', categoryId)
HeadUpdateWrite(c, fault) ==
    /\ cl[c].pc = "head.update.write"
    /\ LET r == ResolveImage(input.data, input.resp)
           categoryId == cl[c].id
           rows == Affected(head_categories, categoryId, fault)
           stmts == cl[c].stmts \cup UploadStmts(r)
       IN  IF r.threw
             THEN /\ Finish(c, "head.update", "UploadError", [stmts |-> stmts, id |-> categoryId])
                  /\ UNCHANGED head_categories
           ELSE IF fault = "error"
             THEN /\ Finish(c, "head.update", "StoreError",
                            [answer |-> fault, stmts |-> stmts \cup {"update"}, id |-> categoryId, img |-> r.url])
                  /\ UNCHANGED head_categories
           ELSE /\ head_categories' = SetImage(head_categories, rows, r.url)
                /\ Finish(c, "head.update", "ok",
                          [answer |-> fault, stmts |-> stmts \cup {"update"}, id |-> categoryId, img |-> r.url,
                           ret |-> categoryId, affected |-> Cardinality(rows)])
    /\ UNCHANGED <<sub_categories, micro_categories, micro_category_meta, nextId,
                   metaColumn, input, calls>>
    /\ UNCHANGED nonApiVars

\* headCategoryApi.delete up to the await of the child query
\* select('id', {count: 'exact'}).eq('head_category_id', id)
HeadDelete(c, id, fault) ==
    /\ Begin(c)
    /\ LET subCats == SubsOfHead(id)
       IN  IF fault = "error"
             THEN Finish(c, "head.delete", "StoreError", [answer |-> fault, stmts |-> {"count"}, id |-> id])
           ELSE IF HasChildren(subCats)
             THEN Finish(c, "head.delete", "CannotDelete",
                         [answer |-> fault, stmts |-> {"count"}, id |-> id, count |-> ChildCount(subCats)])
           ELSE Await(c, "head.delete", "head.delete.write", id, {"count"})
    /\ UNCHANGED <<storeVars, input>>
    /\ UNCHANGED nonApiVars

\* headCategoryApi.delete after the child check:
\* delete().eq('id', id).select('id') and the check of the returned rows
HeadDeleteWrite(c, fault) ==
    /\ cl[c].pc = "head.delete.write"
    /\ LET id == cl[c].id
           data == Affected(head_categories, id, fault)
           stmts == cl[c].stmts \cup {"delete"}
       IN  /\ head_categories' = DeleteRows(head_categories, data)
           /\ IF fault = "error"
                THEN Finish(c, "head.delete", "StoreError", [answer |-> fault, stmts |-> stmts, id |-> id])
              ELSE IF NoRowDeleted(data)
                THEN Finish(c, "head.delete", "DeleteFailed", [answer |-> fault, stmts |-> stmts, id |-> id])
              ELSE Finish(c, "head.delete", "ok",
                          [answer |-> fault, stmts |-> stmts, id |-> id, affected |-> Cardinality(data)])
    /\ UNCHANGED <<sub_categories, micro_categories, micro_category_meta, nextId,
                   metaColumn, input, calls>>
    /\ UNCHANGED nonApiVars

\* ---------------------------------------------------------- sub categories

\* subCategoryApi.create
SubCreate(c, headCategoryId, fault) ==
    /\ Begin(c)
    /\ nextId.sub < MaxRows
    /\ LET r == ResolveImage(input.data, input.resp)
           id == IdOf(nextId.sub + 1)
       IN  IF r.threw
             THEN /\ Finish(c, "sub.create", "UploadError", [stmts |-> UploadStmts(r)])
                  /\ UNCHANGED <<sub_categories, nextId>>
           ELSE IF fault = "error"
             THEN /\ Finish(c, "sub.create", "StoreError",
                            [answer |-> fault, stmts |-> UploadStmts(r) \cup {"insert"}, img |-> r.url])
                  /\ UNCHANGED <<sub_categories, nextId>>
           ELSE /\ sub_categories' = InsertRow(sub_categories, id, [head_category_id |-> headCategoryId, image_url |-> r.url])
                /\ nextId' = [nextId EXCEPT !.sub = @ + 1]
                /\ Finish(c, "sub.create", "ok",
                          [answer |-> fault, stmts |-> UploadStmts(r) \cup {"insert"}, img |-> r.url,
                           ret |-> id, affected |-> 1])
    /\ UNCHANGED <<head_categories, micro_categories, micro_category_meta, metaColumn, input>>
    /\ UNCHANGED nonApiVars

\* subCategoryApi.update up to the await of ensureRowExists
SubUpdate(c, id, fault) ==
    /\ Begin(c)
    /\ LET categoryId == Trim(StrOrEmpty(id))
           e == ensureRowExists(sub_categories, categoryId, fault)
       IN  IF e.out = "ok"
             THEN Await(c, "sub.update", "sub.update.write", categoryId, e.stmts)
           ELSE Finish(c, "sub.update", e.out, [answer |-> e.answer, stmts |-> e.stmts, id |-> categoryId])
    /\ UNCHANGED <<storeVars, input>>
    /\ UNCHANGED nonApiVars

\* subCategoryApi.update after the existence probe: the image resolution
\* and the update statement .update({...}).eq('id', categoryId)
SubUpdateWrite(c, fault) ==
    /\ cl[c].pc = "sub.update.write"
    /\ LET r == ResolveImage(input.data, input.resp)
           categoryId == cl[c].id
           rows == Affected(sub_categories, categoryId, fault)
           stmts == cl[c].stmts \cup UploadStmts(r)
       IN  IF r.threw
             THEN /\ Finish(c, "sub.update", "UploadError", [stmts |-> stmts, id |-> categoryId])
                  /\ UNCHANGED sub_categories
           ELSE IF fault = "error"
             THEN /\ Finish(c, "sub.update", "StoreError",
                            [answer |-> fault, stmts |-> stmts \cup {"update"}, id |-> categoryId, img |-> r.url])
                  /\ UNCHANGED sub_categories
           ELSE /\ sub_categories' = SetImage(sub_categories, rows, r.url)
                /\ Finish(c, "sub.update", "ok",
                          [answer |-> fault, stmts |-> stmts \cup {"update"}, id |-> categoryId, img |-> r.url,
                           ret |-> categoryId, affected |-> Cardinality(rows)])
    /\ UNCHANGED <<head_categories, micro_categories, micro_category_meta, nextId,
                   metaColumn, input, calls>>
    /\ UNCHANGED nonApiVars

\* subCategoryApi.delete up to the await of the child query
\* select('id', {count: 'exact'}).eq('sub_category_id', id)
SubDelete(c, id, fault) ==
    /\ Begin(c)
    /\ LET microCats == MicrosOfSub(id)
       IN  IF fault = "error"
             THEN Finish(c, "sub.delete", "StoreError", [answer |-> fault, stmts |-> {"count"}, id |-> id])
           ELSE IF HasChildren(microCats)
             THEN Finish(c, "sub.delete", "CannotDelete",
                         [answer |-> fault, stmts |-> {"count"}, id |-> id, count |-> ChildCount(microCats)])
           ELSE Await(c, "sub.delete", "sub.delete.write", id, {"count"})
    /\ UNCHANGED <<storeVars, input>>
    /\ UNCHANGED nonApiVars

\* subCategoryApi.delete after the child check:
\* delete().eq('id', id).select('id') and the check of the returned rows
SubDeleteWrite(c, fault) ==
    /\ cl[c].pc = "sub.delete.write"
    /\ LET id == cl[c].id
           data == Affected(sub_categories, id, fault)
           stmts == cl[c].stmts \cup {"delete"}
       IN  /\ sub_categories' = DeleteRows(sub_categories, data)
           /\ IF fault = "error"
                THEN Finish(c, "sub.delete", "StoreError", [answer |-> fault, stmts |-> stmts, id |-> id])
              ELSE IF NoRowDeleted(data)
                THEN Finish(c, "sub.delete", "DeleteFailed", [answer |-> fault, stmts |-> stmts, id |-> id])
              ELSE Finish(c, "sub.delete", "ok",
                          [answer |-> fault, stmts |-> stmts, id |-> id, affected |-> Cardinality(data)])
    /\ UNCHANGED <<head_categories, micro_categories, micro_category_meta, nextId,
                   metaColumn, input, calls>>
    /\ UNCHANGED nonApiVars

\* -------------------------------------------------------- micro categories

\* microCategoryApi.create
MicroCreate(c, subCategoryId, fault) ==
    /\ Begin(c)
    /\ nextId.micro < MaxRows
    /\ LET r == ResolveImage(input.data, input.resp)
           id == IdOf(nextId.micro + 1)
       IN  IF r.threw
             THEN /\ Finish(c, "micro.create", "UploadError", [stmts |-> UploadStmts(r)])
                  /\ UNCHANGED <<micro_categories, nextId>>
           ELSE IF fault = "error"
             THEN /\ Finish(c, "micro.create", "StoreError",
                            [answer |-> fault, stmts |-> UploadStmts(r) \cup {"insert"}, img |-> r.url])
                  /\ UNCHANGED <<micro_categories, nextId>>
           ELSE /\ micro_categories' = InsertRow(micro_categories, id,
                        [sub_category_id |-> subCategoryId, image_url |-> r.url])
                /\ nextId' = [nextId EXCEPT !.micro = @ + 1]
                /\ Finish(c, "micro.create", "ok",
                          [answer |-> fault, stmts |-> UploadStmts(r) \cup {"insert"}, img |-> r.url,
                           ret |-> id, affected |-> 1])
    /\ UNCHANGED <<head_categories, sub_categories, micro_category_meta, metaColumn, input>>
    /\ UNCHANGED nonApiVars

\* microCategoryApi.update up to the await of ensureRowExists
MicroUpdate(c, id, fault) ==
    /\ Begin(c)
    /\ LET categoryId == Trim(StrOrEmpty(id))
           e == ensureRowExists(micro_categories, categoryId, fault)
       IN  IF e.out = "ok"
             THEN Await(c, "micro.update", "micro.update.write", categoryId, e.stmts)
           ELSE Finish(c, "micro.update", e.out, [answer |-> e.answer, stmts |-> e.stmts, id |-> categoryId])
    /\ UNCHANGED <<storeVars, input>>
    /\ UNCHANGED nonApiVars

\* microCategoryApi.update after the existence probe
MicroUpdateWrite(c, fault) ==
    /\ cl[c].pc = "micro.update.write"
    /\ LET r == ResolveImage(input.data, input.resp)
           categoryId == cl[c].id
           rows == Affected(micro_categories, categoryId, fault)
           stmts == cl[c].stmts \cup UploadStmts(r)
       IN  IF r.threw
             THEN /\ Finish(c, "micro.update", "UploadError", [stmts |-> stmts, id |-> categoryId])
                  /\ UNCHANGED micro_categories
           ELSE IF fault = "error"
             THEN /\ Finish(c, "micro.update", "StoreError",
                            [answer |-> fault, stmts |-> stmts \cup {"update"}, id |-> categoryId, img |-> r.url])
                  /\ UNCHANGED micro_categories
           ELSE /\ micro_categories' = SetImage(micro_categories, rows, r.url)
                /\ Finish(c, "micro.update", "ok",
                          [answer |-> fault, stmts |-> stmts \cup {"update"}, id |-> categoryId, img |-> r.url,
                           ret |-> categoryId, affected |-> Cardinality(rows)])
    /\ UNCHANGED <<head_categories, sub_categories, micro_category_meta, nextId,
                   metaColumn, input, calls>>
    /\ UNCHANGED nonApiVars

\* the meta table's delete().eq(column, id): "undefined_column" (code 42703)
\* when the schema has no such column, else the fault the store answers with
MetaDeleteAnswer(column, fault) ==
    IF column # metaColumn THEN "undefined_column" ELSE fault

\* client c is suspended as by Await, and keeps the answer of the
\* statement before
AwaitAnswered(c, op, pc, id, stmts, answer) ==
    cl' = [cl EXCEPT ![c] = [Idle EXCEPT !.pc = pc, !.op = op, !.id = id,
                                         !.stmts = stmts, !.answer = answer]]

\* a retry after any error of the first meta delete
RetryMetaDeleteOnAnyError(answer) == answer \in {"undefined_column", "error"}

\* metaRes.error && (code === '42703' || /column .* does not exist/i.test(message))
RetryMetaDelete(answer) == answer = "undefined_column"

\* microCategoryApi.delete up to the await of the first meta delete,
\* delete().eq('micro_categories', id)
MicroDelete(c, id, fault) ==
    /\ Begin(c)
    /\ LET answer == MetaDeleteAnswer("micro_categories", fault)
       IN  IF RetryMetaDelete(answer)
             THEN /\ AwaitAnswered(c, "micro.delete", "micro.delete.meta", id, {"meta_delete"}, answer)
                  /\ UNCHANGED micro_category_meta
           ELSE IF answer = "error"
             THEN /\ Finish(c, "micro.delete", "StoreError",
                            [answer |-> answer, stmts |-> {"meta_delete"}, id |-> id])
                  /\ UNCHANGED micro_category_meta
           ELSE /\ micro_category_meta' =
                        IF answer = "none" THEN micro_category_meta \ {id}
                        ELSE micro_category_meta
                /\ AwaitAnswered(c, "micro.delete", "micro.delete.write", id, {"meta_delete"}, answer)
    /\ UNCHANGED <<head_categories, sub_categories, micro_categories, nextId,
                   metaColumn, input>>
    /\ UNCHANGED nonApiVars

\* microCategoryApi.delete: the retry delete().eq('micro_category_id', id)
MicroDeleteMetaRetry(c, fault) ==
    /\ cl[c].pc = "micro.delete.meta"
    /\ LET id == cl[c].id
           answer == MetaDeleteAnswer("micro_category_id", fault)
           stmts == cl[c].stmts \cup {"meta_delete_retry"}
       IN  IF answer \in {"undefined_column", "error"}
             THEN /\ Finish(c, "micro.delete", "StoreError", [answer |-> answer, stmts |-> stmts, id |-> id])
                  /\ UNCHANGED micro_category_meta
           ELSE /\ micro_category_meta' =
                        IF answer = "none" THEN micro_category_meta \ {id}
                        ELSE micro_category_meta
                /\ AwaitAnswered(c, "micro.delete", "micro.delete.write", id, stmts, answer)
    /\ UNCHANGED <<head_categories, sub_categories, micro_categories, nextId,
                   metaColumn, input, calls>>
    /\ UNCHANGED nonApiVars

\* microCategoryApi.delete after the meta delete:
\* delete().eq('id', id).select('id') and the check of the returned rows.
\* A meta row that still references the micro category blocks its deletion
\* (foreign key), which the store answers with an error.
MicroDeleteWrite(c, fault) ==
    /\ cl[c].pc = "micro.delete.write"
    /\ LET id == cl[c].id
           blockedByMeta == id \in micro_category_meta /\ MatchId(micro_categories, id) # {}
           answer == IF fault = "none" /\ blockedByMeta THEN "error" ELSE fault
           data == Affected(micro_categories, id, answer)
           stmts == cl[c].stmts \cup {"delete"}
       IN  /\ micro_categories' = DeleteRows(micro_categories, data)
           /\ IF answer = "error"
                THEN Finish(c, "micro.delete", "StoreError", [answer |-> answer, stmts |-> stmts, id |-> id])
              ELSE IF NoRowDeleted(data)
                THEN Finish(c, "micro.delete", "DeleteFailed", [answer |-> answer, stmts |-> stmts, id |-> id])
              ELSE Finish(c, "micro.delete", "ok",
                          [answer |-> answer, stmts |-> stmts, id |-> id, affected |-> Cardinality(data)])
    /\ UNCHANGED <<head_categories, sub_categories, micro_category_meta, nextId,
                   metaColumn, input, calls>>
    /\ UNCHANGED nonApiVars

\* a meta side-row is attached to an existing micro category (written by
\* the part of the console that edits micro category metadata)
MetaInsert(id) ==
    /\ id \in DOMAIN micro_categories
    /\ id \notin micro_category_meta
    /\ micro_category_meta' = micro_category_meta \cup {id}
    /\ UNCHANGED <<head_categories, sub_categories, micro_categories, nextId,
                   metaColumn, input, calls, cl>>
    /\ UNCHANGED nonApiVars

\* ---------------------------------------------------------- vendor onboarding
\* VendorOnboarding.jsx: the page's state and its handleSubmit, one step
\* per await.  The form's texts are opaque values here; three of the nine
\* fields are kept, the others are set and reset the same way.

FormFields == {"companyName", "email", "tempPassword"}

\* the form as useState creates it and as the reset after a success leaves it
EmptyForm == [companyName |-> "", email |-> "", tempPassword |-> ""]

FieldValues == [companyName |-> {"", "Acme"}, email |-> {"", "a@x.in"}, tempPassword |-> {"", "Pw1!"}]

NoToast == [title |-> "", description |-> "", variant |-> ""]

\* the identity ids the authentication service hands out, in order
UserIdOf(n) == n

\* the identifier the vendor service gives the profile of an identity
VendorIdOf(userId) == 100 + userId

\* formData.tempPassword || <generated>
PasswordOf(form) == IF form.tempPassword # "" THEN form.tempPassword ELSE "generated"

\* what supabase.auth.signUp answers: an error, a new identity, or
\* neither an error nor a user
SignUpAnswers == {"error", "user", "no_user"}

\* vendorApi.registerVendor creates the profile of the identity or throws
RegisterAnswers == {"ok", "throws"}

\* vendorApi.getVendorByUserId returns the profile, returns null or throws
GetVendorAnswers == {"vendor", "null", "throws"}

registerVendor(userId) ==
    vendors \cup {[user_id |-> userId, vendor_id |-> VendorIdOf(userId)]}

getVendorByUserId(userId) ==
    CHOOSE v \in vendors : v.user_id = userId

InitVendor ==
    /\ vo = [loading |-> FALSE, formData |-> EmptyForm, pc |-> "idle",
             submitted |-> EmptyForm, userId |-> 0, toast |-> NoToast,
             callLog |-> <<>>, answers |-> <<>>]
    /\ authUsers = {}
    /\ vendors = {}
    /\ submits = 0

\* updateField: one field of the form takes the (sanitised) value typed
updateField(field, value) ==
    /\ vo.formData[field] # value
    /\ vo' = [vo EXCEPT !.formData[field] = value]
    /\ UNCHANGED <<authUsers, vendors, submits>>
    /\ UNCHANGED nonVendorVars

\* handleSubmit up to its first await: loading is set and signUp is
\* called with the email and the password.  The submit button is disabled
\* while loading.
handleSubmit ==
    /\ ~vo.loading
    /\ vo.pc = "idle"
    /\ submits < MaxSubmits
    /\ submits' = submits + 1
    /\ vo' = [vo EXCEPT !.loading = TRUE,
                        !.submitted = vo.formData,
                        !.userId = 0,
                        !.callLog = <<[call |-> "signUp", email |-> vo.formData.email,
                                       password |-> PasswordOf(vo.formData)]>>,
                        !.answers = <<>>,
                        !.pc = "signUp"]
    /\ UNCHANGED <<authUsers, vendors>>
    /\ UNCHANGED nonVendorVars

\* a catch that also resets the form
CatchFinallyAndReset(v) ==
    [v EXCEPT !.toast = [title |-> "Error", description |-> "Something went wrong",
                         variant |-> "destructive"],
              !.formData = EmptyForm,
              !.loading = FALSE,
              !.pc = "idle"]

\* the catch and the finally of handleSubmit: the error toast, and
\* loading cleared
CatchFinally(v) ==
    [v EXCEPT !.toast = [title |-> "Error", description |-> "Something went wrong",
                         variant |-> "destructive"],
              !.loading = FALSE,
              !.pc = "idle"]

\* signUp's answer never makes the handler throw
SignUpThrowsNever(answer) == FALSE

\* if (authError) throw authError; authData.user.id of no user throws
SignUpThrows(answer) == answer \in {"error", "no_user"}

\* signUp answers: on an error the handler ends in catch; on a new
\* identity registerVendor is called with its id
signUpReturns(answer) ==
    /\ vo.pc = "signUp"
    /\ authUsers' = IF answer = "user" THEN authUsers \cup {UserIdOf(submits)} ELSE authUsers
    /\ LET v == [vo EXCEPT !.answers = Append(vo.answers, answer)]
           userId == IF answer = "user" THEN UserIdOf(submits) ELSE 0
       IN  vo' = IF SignUpThrows(answer)
                   THEN CatchFinally(v)
                 ELSE [v EXCEPT !.userId = userId,
                                !.callLog = Append(vo.callLog,
                                    [call |-> "registerVendor", userId |-> userId,
                                     email |-> vo.submitted.email]),
                                !.pc = "registerVendor"]
    /\ UNCHANGED <<vendors, submits>>
    /\ UNCHANGED nonVendorVars

\* registerVendor answers: on success getVendorByUserId is called with
\* the same id; a throw ends the handler in catch
registerVendorReturns(answer) ==
    /\ vo.pc = "registerVendor"
    /\ vendors' = IF answer = "throws" THEN vendors ELSE registerVendor(vo.userId)
    /\ LET v == [vo EXCEPT !.answers = Append(vo.answers, answer)]
       IN  vo' = IF answer = "throws"
                   THEN CatchFinally(v)
                 ELSE [v EXCEPT !.callLog = Append(vo.callLog,
                                    [call |-> "getVendorByUserId", userId |-> vo.userId]),
                                !.pc = "getVendorByUserId"]
    /\ UNCHANGED <<authUsers, submits>>
    /\ UNCHANGED nonVendorVars

\* getVendorByUserId answers: with the vendor the success toast shows
\* its vendor_id and the form is reset; null (vendor.vendor_id throws)
\* and a throw end the handler in catch.  finally clears loading.
getVendorByUserIdReturns(answer) ==
    /\ vo.pc = "getVendorByUserId"
    /\ LET v == [vo EXCEPT !.answers = Append(vo.answers, answer)]
           vendor == getVendorByUserId(vo.userId)
       IN  vo' = IF answer # "vendor"
                   THEN CatchFinally(v)
                 ELSE [v EXCEPT !.toast = [title |-> "Vendor Created",
                                           description |-> vendor.vendor_id,
                                           variant |-> ""],
                                !.formData = EmptyForm,
                                !.loading = FALSE,
                                !.pc = "idle"]
    /\ UNCHANGED <<authUsers, vendors, submits>>
    /\ UNCHANGED nonVendorVars

\* ------------------------------------------------------------ specifications

\* the id strings a caller may pass: blank, whitespace only, the id of a
\* row (in the table or not), and such an id padded with whitespace
IdInputs ==
    {<<>>, <<SP>>} \cup RowIds \cup {<<SP>> \o r \o <<SP>> : r \in RowIds}

\* the pasted image_url texts: undefined, blank, whitespace only, a URL
\* text, and one padded with whitespace
UrlInputs == {NULL, <<>>, <<SP>>, <<"u">>, <<SP, "u", SP>>}

PngType == <<"i", "m", "a", "g", "e", "/", "p">>
TextType == <<"t", "e", "x", "t", "/", "p">>
Files == {[type |-> PngType, size |-> CATEGORY_IMAGE_MIN_BYTES],
          [type |-> TextType, size |-> CATEGORY_IMAGE_MIN_BYTES]}

UploadResponses ==
    {UploadResponse(TRUE, TRUE, TRUE, <<"p">>),
     UploadResponse(TRUE, TRUE, TRUE, NULL),
     UploadResponse(TRUE, FALSE, FALSE, NULL)}

CategoryData(image_url, imageFile, removeImage) ==
    [image_url |-> image_url, imageFile |-> imageFile, removeImage |-> removeImage]

PlainInput == [data |-> CategoryData(<<>>, NoFile, FALSE),
               resp |-> UploadResponse(TRUE, TRUE, TRUE, <<"p">>)]

\* every pasted text, file and removeImage flag; the upload response
\* varies only with a file that passes the client's checks
ImageInputs ==
    {[data |-> CategoryData(u, f, r), resp |-> p] :
        u \in UrlInputs, f \in Files \cup {NoFile}, r \in BOOLEAN, p \in UploadResponses}
    \ {x \in [data : {CategoryData(u, f, r) : u \in UrlInputs,
                                              f \in Files \cup {NoFile}, r \in BOOLEAN},
              resp : UploadResponses] :
          x.data.imageFile.type # PngType /\ x.resp # PlainInput.resp}

\* ------------------------------------------------------------ category dialog
\* AddEditCategoryDialog.jsx, opened at level 'head'.  A URL text is written
\* as a sequence of lexemes (a scheme, an authority, other text, spaces);
\* names and slugs are sequences of characters.  The errors state only
\* feeds the messages under the fields and is not kept.

IMAGE_MIN_BYTES == 100 * 1024
IMAGE_MAX_BYTES == 800 * 1024

DescriptionMax == 500

LowerLetters == {LowerAlphabet[i] : i \in DOMAIN LowerAlphabet}
UpperLetters == {UpperAlphabet[i] : i \in DOMAIN UpperAlphabet}
DigitChars == {"0"} \cup {Digits[i] : i \in DOMAIN Digits}

\* [A-Za-z0-9\s&(),.'\/+-]
NameChars ==
    LowerLetters \cup UpperLetters \cup DigitChars
    \cup Whitespace \cup {"&", "(", ")", ",", ".", "'", "/", "+", "-"}

\* [a-z0-9\s-]
SlugChars == LowerLetters \cup DigitChars \cup Whitespace \cup {"-"}

\* replace(/[^...]/g, ''): the characters of s that are in keep
Keep(s, keep) == SelectSeq(s, LAMBDA ch : ch \in keep)

\* the length of the run of characters of xs that s starts with
RECURSIVE RunLength(_, _)
RunLength(s, xs) ==
    IF s # <<>> /\ Head(s) \in xs THEN 1 + RunLength(Tail(s), xs) ELSE 0

\* replace(/[xs]{min,}/g, y): every run of min or more characters of xs
\* becomes one y; a shorter run stays as it is
RECURSIVE SquashRuns(_, _, _, _)
SquashRuns(s, xs, min, y) ==
    IF s = <<>> THEN <<>>
    ELSE LET n == RunLength(s, xs)
         IN  IF n = 0 THEN <<Head(s)>> \o SquashRuns(Tail(s), xs, min, y)
             ELSE (IF n >= min THEN <<y>> ELSE SubSeq(s, 1, n))
                  \o SquashRuns(SubSeq(s, n + 1, Len(s)), xs, min, y)

\* a strip that takes the hyphen off the start only
StripHyphensLeadingOnly(s) ==
    IF s # <<>> /\ Head(s) = "-" THEN Tail(s) ELSE s

\* replace(/^-|-$/g, ''): one hyphen off each end
StripHyphens(s) ==
    LET a == IF s # <<>> /\ Head(s) = "-" THEN Tail(s) ELSE s
    IN  IF a # <<>> /\ a[Len(a)] = "-" THEN SubSeq(a, 1, Len(a) - 1) ELSE a

\* a name sanitizer that collapses only runs of three or more
sanitizeCategoryNameLongRuns(value) ==
    TrimStart(SquashRuns(Keep(value, NameChars), Whitespace, 3, SP))

sanitizeCategoryName(value) ==
    TrimStart(SquashRuns(Keep(value, NameChars), Whitespace, 2, SP))

\* a slug sanitizer without the replace(/-+/g, '-')
sanitizeSlugInputKeepsRuns(value) ==
    StripHyphens(SquashRuns(Keep(ToLowerCase(value), SlugChars), Whitespace, 1, "-"))

sanitizeSlugInput(value) ==
    StripHyphens(SquashRuns(SquashRuns(Keep(ToLowerCase(value), SlugChars), Whitespace, 1, "-"), {"-"}, 1, "-"))

\* safeSlug of categoryApi.js: as sanitizeSlugInput, with a trim() after
\* toLowerCase()
safeSlug(v) ==
    StripHyphens(SquashRuns(SquashRuns(Keep(Trim(ToLowerCase(StrOrEmpty(v))), SlugChars),
                                       Whitespace, 1, "-"), {"-"}, 1, "-"))

sanitizeDescription(value) ==
    SquashRuns(SelectSeq(value, LAMBDA ch : ch \notin {"<", ">"}), Whitespace, 2, SP)

\* String(value).trim().replace(/\s+/g, '')
sanitizeImageUrl(value) == SelectSeq(Trim(value), LAMBDA ch : ch \notin Whitespace)

\* /^[a-z0-9]+(?:-[a-z0-9]+)*$/
SlugPattern(s) ==
    /\ s # <<>>
    /\ \A i \in 1..Len(s) : s[i] \in LowerLetters \cup DigitChars \cup {"-"}
    /\ s[1] # "-"
    /\ s[Len(s)] # "-"
    /\ \A i \in 1..(Len(s) - 1) : ~(s[i] = "-" /\ s[i + 1] = "-")

\* new URL(value) parses: a scheme and an authority, no space left in it
ParsesAsUrl(value) ==
    /\ Len(value) >= 2
    /\ value[1] \in {"http:", "https:", "ftp:"}
    /\ value[2] = "//h"
    /\ \A i \in 1..Len(value) : value[i] # SP

isValidHttpUrl(value) ==
    ParsesAsUrl(value) /\ value[1] \in {"http:", "https:"}

\* category = null
NoCategory == [id |-> NULL, name |-> <<>>, slug |-> <<>>, image_url |-> NULL]

EmptyFormData == [name |-> <<>>, slug |-> <<>>, description |-> <<>>, image_url |-> <<>>]

\* useMemo(() => sanitizeImageUrl(category?.image_url || ''))
existingImageUrl == sanitizeImageUrl(StrOrEmpty(dlg.category.image_url))

\* the URL the preview shows: the picked file's, else the URL field's
previewUrl ==
    IF dlg.imageFile # NoFile THEN <<"blob:">> ELSE Trim(dlg.formData.image_url)

\* no pure function is under study
InitFn == fn = <<>>

\* the dialog before the parent opens it
InitDialog ==
    dlg = [isOpen |-> FALSE, category |-> NoCategory, formData |-> EmptyFormData,
           imageFile |-> NoFile, removeImage |-> FALSE, loading |-> FALSE]

\* the events of the form are taken while no save is in flight; the
\* save holds the payload it was given and reads nothing of the form
FormOpen == dlg.isOpen /\ ~dlg.loading

\* the parent opens the dialog to add (category = null) or to edit a head
\* category; the effect on [category, isOpen] fills the form
OpenDialog(category) ==
    /\ ~dlg.isOpen
    /\ ~dlg.loading
    /\ dlg' = [isOpen |-> TRUE,
               category |-> category,
               formData |-> IF category # NoCategory
                              THEN [name |-> sanitizeCategoryName(category.name),
                                    slug |-> sanitizeSlugInput(category.slug),
                                    description |-> <<>>,
                                    image_url |-> sanitizeImageUrl(StrOrEmpty(category.image_url))]
                            ELSE EmptyFormData,
               imageFile |-> NoFile,
               removeImage |-> FALSE,
               loading |-> FALSE]
    /\ UNCHANGED nonDialogVars

\* Cancel, or the dialog's own close: onClose()
CloseDialog ==
    /\ FormOpen
    /\ dlg' = [dlg EXCEPT !.isOpen = FALSE]
    /\ UNCHANGED nonDialogVars

handleNameChange(name) ==
    /\ FormOpen
    /\ LET cleaned == sanitizeCategoryName(name)
       IN  dlg' = [dlg EXCEPT !.formData.name = cleaned,
                              !.formData.slug = sanitizeSlugInput(cleaned)]
    /\ UNCHANGED nonDialogVars

\* the slug field's onChange
SlugChange(value) ==
    /\ FormOpen
    /\ dlg' = [dlg EXCEPT !.formData.slug = sanitizeSlugInput(value)]
    /\ UNCHANGED nonDialogVars

\* a file gate that turns away a file of exactly the minimum size
ImageFileAcceptedAboveMin(f) ==
    /\ StartsWith(StrOrEmpty(f.type), ImagePrefix)
    /\ f.size > IMAGE_MIN_BYTES
    /\ f.size <= IMAGE_MAX_BYTES

\* the file gate of the file input and of validate
ImageFileAccepted(f) ==
    /\ StartsWith(StrOrEmpty(f.type), ImagePrefix)
    /\ f.size >= IMAGE_MIN_BYTES
    /\ f.size <= IMAGE_MAX_BYTES

\* the file input's onChange: no file, a file the gate rejects, or a
\* file that becomes the selection
ImageFileChange(f) ==
    /\ FormOpen
    /\ dlg' = IF f = NoFile \/ ~ImageFileAccepted(f)
                THEN [dlg EXCEPT !.imageFile = NoFile]
              ELSE [dlg EXCEPT !.imageFile = f, !.removeImage = FALSE]
    /\ UNCHANGED nonDialogVars

\* a URL field whose onChange leaves removeImage as it is
ImageUrlChangeKeepsRemoval(value) ==
    /\ FormOpen
    /\ LET cleanUrl == sanitizeImageUrl(value)
       IN  dlg' = IF cleanUrl # <<>>
                    THEN [dlg EXCEPT !.formData.image_url = cleanUrl,
                                     !.imageFile = NoFile]
                  ELSE [dlg EXCEPT !.formData.image_url = cleanUrl]
    /\ UNCHANGED nonDialogVars

\* the URL field's onChange
ImageUrlChange(value) ==
    /\ FormOpen
    /\ LET cleanUrl == sanitizeImageUrl(value)
       IN  dlg' = IF cleanUrl # <<>>
                    THEN [dlg EXCEPT !.formData.image_url = cleanUrl,
                                     !.imageFile = NoFile,
                                     !.removeImage = FALSE]
                  ELSE [dlg EXCEPT !.formData.image_url = cleanUrl]
    /\ UNCHANGED nonDialogVars

clearImageSelection(removeExisting) ==
    [dlg EXCEPT !.imageFile = NoFile,
                !.formData.image_url = IF removeExisting THEN <<>> ELSE existingImageUrl,
                !.removeImage = removeExisting /\ existingImageUrl # <<>>]

\* the delete button of the preview, shown when previewUrl && !removeImage
handlePreviewDelete ==
    /\ FormOpen
    /\ previewUrl # <<>>
    /\ ~dlg.removeImage
    /\ LET currentUrl == sanitizeImageUrl(dlg.formData.image_url)
           isExistingImage == /\ dlg.imageFile = NoFile
                              /\ ~dlg.removeImage
                              /\ currentUrl # <<>>
                              /\ existingImageUrl # <<>>
                              /\ currentUrl = existingImageUrl
       IN  dlg' = clearImageSelection(isExistingImage)
    /\ UNCHANGED nonDialogVars

\* the Undo button, shown when removeImage && existingImageUrl
undoRemoveExistingImage ==
    /\ FormOpen
    /\ dlg.removeImage
    /\ existingImageUrl # <<>>
    /\ dlg' = [dlg EXCEPT !.removeImage = FALSE, !.formData.image_url = existingImageUrl]
    /\ UNCHANGED nonDialogVars

\* a validate that lets every URL text through
ImageUrlRejectedNever(imageFile, cleanImageUrl) == FALSE

\* !imageFile && cleanImageUrl && !isValidHttpUrl(cleanImageUrl)
ImageUrlRejected(imageFile, cleanImageUrl) ==
    imageFile = NoFile /\ cleanImageUrl # <<>> /\ ~isValidHttpUrl(cleanImageUrl)

\* validate: the fields in error, and the form data with the cleaned texts
validate ==
    LET cleanName == Trim(sanitizeCategoryName(dlg.formData.name))
        cleanSlug == Trim(sanitizeSlugInput(dlg.formData.slug))
        cleanDescription == Trim(sanitizeDescription(dlg.formData.description))
        cleanImageUrl == sanitizeImageUrl(dlg.formData.image_url)
    IN  [newErrors |->
            {k \in {"name"} : cleanName = <<>>}
            \cup {k \in {"slug"} : cleanSlug = <<>> \/ ~SlugPattern(cleanSlug)}
            \cup {k \in {"description"} : Len(cleanDescription) > DescriptionMax}
            \cup {k \in {"image_file"} : dlg.imageFile # NoFile /\ ~ImageFileAccepted(dlg.imageFile)}
            \cup {k \in {"image_url"} : ImageUrlRejected(dlg.imageFile, cleanImageUrl)},
         formData |-> [name |-> cleanName, slug |-> cleanSlug,
                       description |-> cleanDescription, image_url |-> cleanImageUrl]]

\* the argument handleSubmit gives onSave
SavePayload ==
    [name |-> Trim(sanitizeCategoryName(dlg.formData.name)),
     slug |-> Trim(sanitizeSlugInput(dlg.formData.slug)),
     description |-> Trim(sanitizeDescription(dlg.formData.description)),
     image_url |-> sanitizeImageUrl(dlg.formData.image_url),
     imageFile |-> dlg.imageFile,
     removeImage |-> dlg.removeImage,
     id |-> dlg.category.id]

\* handleSubmit up to the await of onSave: validate, and when no field is
\* in error, loading is set and onSave gets the payload; resp is what the
\* upload endpoint will answer during this save
handleDialogSubmit(resp) ==
    /\ FormOpen
    /\ IF validate.newErrors # {}
         THEN /\ resp = PlainInput.resp
              /\ dlg' = [dlg EXCEPT !.formData = validate.formData]
              /\ UNCHANGED input
         ELSE /\ calls < MaxCalls
              /\ dlg' = [dlg EXCEPT !.formData = validate.formData, !.loading = TRUE]
              /\ input' = [data |-> SavePayload, resp |-> resp]
    /\ UNCHANGED <<storeVars, calls, cl, vendorVars, fnVars, salesVars>>

\* onSave of an add: the page calls headCategoryApi.create with the payload
onSaveCreate(fault) ==
    /\ dlg.loading
    /\ cl["c1"] = Idle
    /\ input.data.id = NULL
    /\ HeadCreate("c1", fault)

\* onSave of an edit: the page calls headCategoryApi.update with the
\* payload's id and the payload
onSaveUpdate(fault) ==
    /\ dlg.loading
    /\ cl["c1"] = Idle
    /\ input.data.id # NULL
    /\ HeadUpdate("c1", input.data.id, fault)

\* onSave has settled: onClose() when it resolved, the catch when it
\* rejected, and loading cleared
onSaveSettled ==
    /\ dlg.loading
    /\ cl["c1"].pc = "idle"
    /\ cl["c1"].op # "none"
    /\ dlg' = [dlg EXCEPT !.loading = FALSE,
                          !.isOpen = IF cl["c1"].out = "ok" THEN FALSE ELSE dlg.isOpen]
    /\ cl' = [cl EXCEPT !["c1"] = Idle]
    /\ input' = PlainInput
    /\ UNCHANGED <<storeVars, calls, vendorVars, fnVars, salesVars>>

\* ------------------------------------------------------------ employee routes
\* part_000: the express router of the employee console.

\* CATEGORY_IMAGE_MIN_BYTES and CATEGORY_IMAGE_MAX_BYTES of the router
ROUTER_CATEGORY_IMAGE_MIN_BYTES == 100 * 1024
ROUTER_CATEGORY_IMAGE_MAX_BYTES == 800 * 1024

CATEGORY_IMAGE_LEVELS == {"head", "sub", "micro"}

OctetStream == <<"a", "p", "p", "l", "i", "c", "a", "t", "i", "o", "n", "/", "o">>

\* a || b for strings: the first unless it is null or empty
OrElse(a, b) == IF StrOrEmpty(a) # <<>> THEN a ELSE b

\* the response of res.status(status).json({success, publicUrl})
Response(status, success, publicUrl) ==
    [status |-> status, success |-> success, publicUrl |-> publicUrl]

\* router.post('/category-image-upload').  body: level, content_type, the
\* mime type and the decoded byte length of data_url (bytes < 0: no
\* data_url).  env: whether the employee profile is found, whether a call
\* throws, whether the storage upload errs, and the public URL.
categoryImageUpload(body, env) ==
    LET explicitType == Trim(StrOrEmpty(body.content_type))
        contentType == OrElse(explicitType, OrElse(body.mime, OctetStream))
    IN  IF env.throws THEN Response(500, FALSE, NULL)
        ELSE IF ~env.employee THEN Response(404, FALSE, NULL)
        ELSE IF body.level \notin CATEGORY_IMAGE_LEVELS THEN Response(400, FALSE, NULL)
        ELSE IF body.bytes < 0 THEN Response(400, FALSE, NULL)
        ELSE IF ~StartsWith(contentType, ImagePrefix) THEN Response(400, FALSE, NULL)
        ELSE IF body.bytes = 0 THEN Response(400, FALSE, NULL)
        ELSE IF body.bytes < ROUTER_CATEGORY_IMAGE_MIN_BYTES THEN Response(400, FALSE, NULL)
        ELSE IF body.bytes > ROUTER_CATEGORY_IMAGE_MAX_BYTES THEN Response(413, FALSE, NULL)
        ELSE IF env.uploadError THEN Response(500, FALSE, NULL)
        ELSE Response(200, TRUE, env.publicUrl)

\* the store and the storage answer, and the public URL is generated
GoodEnv == [employee |-> TRUE, throws |-> FALSE, uploadError |-> FALSE, publicUrl |-> <<"p">>]

\* the body that carries a file's type and bytes as they are
BodyOf(file) ==
    [level |-> "head", content_type |-> file.type, mime |-> NULL,
     bytes |-> IF file.size < 0 THEN 0 ELSE file.size]

\* --- the three image gates applied to one file

Verdict(accepted) == IF accepted THEN "accept" ELSE "reject"

\* uploadCategoryImage passes the file on to the endpoint
uploadGate ==
    /\ fn.upload = "none"
    /\ fn' = [fn EXCEPT !.upload =
                 Verdict(uploadCategoryImage(fn.file, UploadResponse(TRUE, TRUE, TRUE, <<"p">>)).sent)]
    /\ UNCHANGED nonFnVars

\* the dialog's file input and validate take the file
dialogGate ==
    /\ fn.dialog = "none"
    /\ fn' = [fn EXCEPT !.dialog = Verdict(ImageFileAccepted(fn.file))]
    /\ UNCHANGED nonFnVars

\* the endpoint takes a payload of the file's type and bytes
routerGate ==
    /\ fn.router = "none"
    /\ fn' = [fn EXCEPT !.router = Verdict(categoryImageUpload(BodyOf(fn.file), GoodEnv).status = 200)]
    /\ UNCHANGED nonFnVars

\* ----------------------------------------------------------- sales statistics
\* part_000: GET /sales/stats and its helpers.  A JavaScript value is a
\* record [t, v]: a number, NaN, null or a text.  An instant is a number
\* of hours; toISOString and the store's comparison of timestamps keep
\* the order of instants.  A message is a sequence of lexemes.

Num(n) == [t |-> "number", v |-> n]
NotANumber == [t |-> "NaN", v |-> 0]
JsNull == [t |-> "null", v |-> 0]
Text(n) == [t |-> "string", v |-> n]

\* typeof v === 'number' && !Number.isNaN(v) ? v : 0
safeNum(x) == IF x.t = "number" THEN x.v ELSE 0

\* a rounding that drops the fraction
MathFloor(n, d) == n \div d

\* Math.round(n / d) for d > 0: the nearest integer, a half going up
MathRound(n, d) == (2 * n + d) \div (2 * d)

pctChange(current, prev) ==
    LET c == safeNum(current)
        p == safeNum(prev)
    IN  IF p <= 0 THEN JsNull ELSE Num(MathRound((c - p) * 100, p))

\* a conversion rate that forgets the percent
conversionRateAsFraction(totalConverted, totalLeads) ==
    IF totalLeads # 0 THEN MathRound(totalConverted, totalLeads) ELSE 0

\* totalLeads ? Math.round((totalConverted / totalLeads) * 100) : 0
conversionRate(totalConverted, totalLeads) ==
    IF totalLeads # 0 THEN MathRound(totalConverted * 100, totalLeads) ELSE 0

HoursPerDay == 24

\* setHours(0, 0, 0, 0)
startOfDay(d) == d - (d % HoursPerDay)

start7(now) == startOfDay(now) - 6 * HoursPerDay
prevStart7(now) == startOfDay(start7(now)) - 7 * HoursPerDay
prevEnd7(now) == start7(now)

Window(startIso, endIso, endInclusive) ==
    [startIso |-> startIso, endIso |-> endIso, endInclusive |-> endInclusive]

CurrentWindow(now) == Window(start7(now), now, TRUE)
\* a previous window that takes in its end
PreviousWindowClosed(now) == Window(prevStart7(now), prevEnd7(now), TRUE)

PreviousWindow(now) == Window(prevStart7(now), prevEnd7(now), FALSE)

\* .gte(column, startIso) and .lte or .lt(column, endIso)
InWindow(at, w) ==
    /\ at >= w.startIso
    /\ IF w.endInclusive THEN at <= w.endIso ELSE at < w.endIso

conversions == {"CONVERTED", "CLOSED"}

\* the six count queries, in the order of the Promise.all array
CountQueries ==
    <<"totalLeads", "totalConverted", "newLeads7", "newLeadsPrev7", "converted7", "convertedPrev7">>

CountQuerySet == {CountQueries[i] : i \in DOMAIN CountQueries}

\* the filter of count query q
Matches(q, lead, now) ==
    /\ q \in {"totalConverted", "converted7", "convertedPrev7"} => lead.status \in conversions
    /\ q \in {"newLeads7", "converted7"} => InWindow(lead.created_at, CurrentWindow(now))
    /\ q \in {"newLeadsPrev7", "convertedPrev7"} => InWindow(lead.created_at, PreviousWindow(now))

\* select('*', {count: 'exact', head: true}) with the filter of q
CountOf(q, now) == Cardinality({i \in DOMAIN leads : Matches(q, leads[i], now)})

NoError == [code |-> "none", message |-> <<>>]

\* a || b for messages
OrDefault(message, default) == IF message = <<>> THEN default ELSE message

PendingCount == [settled |-> FALSE, count |-> JsNull, error |-> NoError]

CountFaults == {"none", "error"}

CountError == [code |-> "57014", message |-> <<"timeout">>]

\* the error objects a query on lead_purchases can answer with: an
\* undefined column other than purchase_date, an error whose message
\* names the column, and errors with and without a message
RevenueFaults == {"none", "undefined_column", "mentions", "error", "silent"}

PurchaseError(fault) ==
    CASE fault = "undefined_column" ->
            [code |-> "42703", message |-> <<"column", "amount", "does", "not", "exist">>]
      [] fault = "mentions" ->
            [code |-> "57014", message |-> <<"canceling", "statement", "on", "Purchase_Date">>]
      [] fault = "error" -> [code |-> "57014", message |-> <<"timeout">>]
      [] fault = "silent" -> [code |-> "57014", message |-> <<>>]

\* what the store answers when the table has no purchase_date column
MissingPurchaseDate ==
    [code |-> "42703", message |-> <<"column", "purchase_date", "does", "not", "exist">>]

\* toLowerCase on a message
LowerMessage(message) ==
    [i \in DOMAIN message |-> IF message[i] = "Purchase_Date" THEN "purchase_date" ELSE message[i]]

\* errText.includes('purchase_date')
Mentions(message, word) == \E i \in DOMAIN message : LowerMessage(message)[i] = word

\* a test that takes any error for a missing column
FallsBackOnAnyError(error) == error # NoError

\* error && (error.code === '42703' || errText.includes('purchase_date'))
FallsBack(error) ==
    error # NoError /\ (error.code = "42703" \/ Mentions(error.message, "purchase_date"))

\* the answer {data, error} of the query on lead_purchases filtered by
\* column over window w
RevenueQuery(column, w, fault) ==
    IF fault # "none" THEN [data |-> <<>>, error |-> PurchaseError(fault)]
    ELSE IF column = "purchase_date" /\ purchaseSchema # "purchase_date"
      THEN [data |-> <<>>, error |-> MissingPurchaseDate]
    ELSE [data |-> SelectSeq(lead_purchases, LAMBDA row : InWindow(row[column], w)),
          error |-> NoError]

\* (data || []).reduce((sum, row) => sum + safeNum(row?.amount), 0)
RECURSIVE SumAmounts(_)
SumAmounts(data) ==
    IF data = <<>> THEN 0 ELSE safeNum(Head(data).amount) + SumAmounts(Tail(data))

\* one activation of sumRevenueByPeriod: where it is, its window, the
\* columns it has queried by, the errors answered, and what it returned
\* or threw
NoRevenue ==
    [pc |-> "none", w |-> Window(0, 0, TRUE), stmts |-> <<>>, answers |-> <<>>,
     out |-> 0, error |-> <<>>]

\* sumRevenueByPeriod up to the await of the query by purchase_date
BeginRevenue(w) == [NoRevenue EXCEPT !.pc = "first", !.w = w, !.stmts = <<"purchase_date">>]

FailedToLoadRevenue == <<"Failed", "to", "load", "revenue">>
FailedToLoadSalesStats == <<"Failed", "to", "load", "sales", "stats">>

\* the end of sumRevenueByPeriod on the answer of its last query
SettleRevenue(rev, answer) ==
    IF answer.error # NoError
      THEN [rev EXCEPT !.pc = "threw", !.answers = Append(@, answer.error),
                       !.error = OrDefault(answer.error.message, FailedToLoadRevenue)]
    ELSE [rev EXCEPT !.pc = "returned", !.answers = Append(@, answer.error),
                     !.out = SumAmounts(answer.data)]

NoResponse == [status |-> 0, success |-> FALSE, error |-> <<>>, stats |-> <<>>]

\* res.status(status).json({success: false, error})
Failure(status, error) == [NoResponse EXCEPT !.status = status, !.error = error]

\* res.json({success: true, stats})
Success(s) == [NoResponse EXCEPT !.status = 200, !.success = TRUE, !.stats = s]

\* ------------------------------------------------ employee profile and roles

\* const SALES_ROLES = new Set(['SALES', 'ADMIN', 'SUPERADMIN'])
SALES_ROLES == {"SALES", "ADMIN", "SUPERADMIN"}

\* normalizeRole of lib/auth.js: the name of the role in upper case
normalizeRole(role) ==
    CASE role = "sales" -> "SALES"
      [] role = "admin" -> "ADMIN"
      [] role = "vendor" -> "VENDOR"
      [] OTHER -> role

\* an access test that any employee with a role passes
hasSalesAccessOfAnyEmployee(authRole, employeeRole) ==
    normalizeRole(authRole) \in SALES_ROLES \/ employeeRole # ""

\* hasSalesAccess; a role that is null or missing is ""
hasSalesAccess(authRole, employeeRole) ==
    LET a == normalizeRole(authRole)
        e == normalizeRole(employeeRole)
    IN  a \in SALES_ROLES \/ e \in SALES_ROLES

\* req.user, as the session middleware sets it
AuthUser(id, email, role) == [id |-> id, email |-> email, role |-> role]

NoUser == AuthUser(NULL, NULL, "")

\* no row of employees
NoEmployee == 0

\* .maybeSingle(): the row when exactly one matches, else data null
maybeSingle(rows) == IF Cardinality(rows) = 1 THEN CHOOSE e \in rows : TRUE ELSE NoEmployee

\* how the store answers the statements of resolveEmployeeProfile: it
\* answers them, it answers each with an error object, or the client throws
ProfileFaults == {"none", "error", "throws"}

\* the message of an exception thrown by the client
Thrown == <<"fetch", "failed">>

\* resolveEmployeeProfile: the employee found (by user_id, else by email),
\* the employees table after the linking update, and whether it threw.
\* The errors of its statements are not looked at.
resolveEmployeeProfile(authUser, fault) ==
    LET userId == Trim(StrOrEmpty(authUser.id))
        email == ToLowerCase(Trim(StrOrEmpty(authUser.email)))
        byId == IF fault # "none" THEN NoEmployee
                ELSE maybeSingle({e \in DOMAIN employees : employees[e].user_id = userId})
        byEmail == IF fault # "none" \/ byId # NoEmployee \/ email = <<>> THEN NoEmployee
                   ELSE maybeSingle({e \in DOMAIN employees : employees[e].email = email})
        employee == IF byId # NoEmployee THEN byId ELSE byEmail
        links == /\ employee # NoEmployee
                 /\ userId # <<>>
                 /\ employees[employee].user_id # userId
    IN  [threw |-> fault = "throws",
         employee |-> employee,
         employees |-> IF links THEN [employees EXCEPT ![employee].user_id = userId]
                       ELSE employees]

EmployeeProfileNotFound == <<"Employee", "profile", "not", "found">>
SalesAccessRequired == <<"Sales", "access", "required">>

\* the handler may go on
Admitted == [NoResponse EXCEPT !.status = 100]

\* the first lines of a handler: the profile is resolved, and for a
\* sales route the roles are tested; the response that ends the handler
\* there, or Admitted
Admission(authUser, p, salesOnly, default) ==
    IF p.threw THEN Failure(500, OrDefault(Thrown, default))
    ELSE IF p.employee = NoEmployee THEN Failure(404, EmployeeProfileNotFound)
    ELSE IF salesOnly /\ ~hasSalesAccess(authUser.role, p.employees[p.employee].role)
      THEN Failure(403, SalesAccessRequired)
    ELSE Admitted

\* ------------------------------------------------- the other routes

\* .order('created_at', { ascending: false })
RECURSIVE InsertByCreatedAtDesc(_, _)
InsertByCreatedAtDesc(row, s) ==
    IF s = <<>> THEN <<row>>
    ELSE IF row.created_at > Head(s).created_at THEN <<row>> \o s
    ELSE <<Head(s)>> \o InsertByCreatedAtDesc(row, Tail(s))

RECURSIVE orderByCreatedAtDesc(_)
orderByCreatedAtDesc(s) ==
    IF s = <<>> THEN <<>> ELSE InsertByCreatedAtDesc(Head(s), orderByCreatedAtDesc(Tail(s)))

\* res.status(status).json({success: false, error})
RouteFailure(status, error) ==
    [status |-> status, success |-> FALSE, error |-> error, body |-> <<>>]

\* res.json({success: true, ...}) with its payload
RouteSuccess(body) == [status |-> 200, success |-> TRUE, error |-> <<>>, body |-> body]

\* the response Admission ends a handler with
Refusal(adm) == RouteFailure(adm.status, adm.error)

NoEvent == [httpMethod |-> "NONE", body |-> [kind |-> "absent", messages |-> <<>>]]

\* one request: its route, where its handler is, req.user, the lead id
\* and status of a status update, the tables it has queried, whether the
\* store or the client failed it, the event of the chat webhook, and the
\* responses it has sent
IdleRoute ==
    [route |-> "none", pc |-> "idle", user |-> NoUser, leadId |-> <<>>, status |-> "",
     stmts |-> <<>>, failed |-> FALSE, event |-> NoEvent, responses |-> <<>>]

\* the handler of route answers res and ends
EndRoute(route, authUser, res, failed) ==
    req' = [req EXCEPT !.route = route, !.pc = "done", !.user = authUser,
                       !.failed = failed, !.responses = Append(@, res)]

\* the handler of route goes on to its query
AwaitQuery(route, authUser, leadId, status, failed) ==
    req' = [req EXCEPT !.route = route, !.pc = "query", !.user = authUser,
                       !.leadId = leadId, !.status = status, !.failed = failed]

\* the handler answers res after its query on table
EndQuery(table, res, failed) ==
    req' = [req EXCEPT !.pc = "done", !.stmts = Append(@, table),
                       !.failed = @ \/ failed, !.responses = Append(@, res)]

\* how the store answers a query: rows, an error with or without a
\* message, or the client throws
QueryFaults == {"none", "error", "silent", "throws"}

QueryError(fault) ==
    CASE fault = "error" -> [code |-> "57014", message |-> <<"timeout">>]
      [] fault = "silent" -> [code |-> "57014", message |-> <<>>]
      [] fault = "throws" -> [code |-> "thrown", message |-> Thrown]
      [] OTHER -> NoError

FailedToResolveEmployeeProfile == <<"Failed", "to", "resolve", "employee", "profile">>
FailedToFetchLeads == <<"Failed", "to", "fetch", "leads">>
FailedToUpdateLeadStatus == <<"Failed", "to", "update", "lead", "status">>
FailedToLoadPricingRules == <<"Failed", "to", "load", "pricing", "rules">>
LeadIdAndStatusRequired == <<"leadId", "and", "status", "are", "required">>

\* router.get('/me')
Me(authUser, fault) ==
    /\ req.pc = "idle"
    /\ LET p == resolveEmployeeProfile(authUser, fault)
           adm == Admission(authUser, p, FALSE, FailedToResolveEmployeeProfile)
           row == p.employees[p.employee]
           role == IF row.role = "" THEN "UNKNOWN" ELSE row.role
       IN  /\ employees' = p.employees
           /\ EndRoute("me", authUser,
                       IF adm # Admitted THEN Refusal(adm)
                       ELSE RouteSuccess(<<[id |-> p.employee,
                                            email |-> row.email,
                                            user_id |-> OrElse(authUser.id, row.user_id),
                                            role |-> normalizeRole(role)]>>),
                       fault # "none")
    /\ UNCHANGED <<leads, lead_purchases, purchaseSchema, stats, vendor_plans>>
    /\ UNCHANGED nonSalesVars

\* router.get('/sales/leads') up to the await of its select
SalesLeads(authUser, fault) ==
    /\ req.pc = "idle"
    /\ LET p == resolveEmployeeProfile(authUser, fault)
           adm == Admission(authUser, p, TRUE, FailedToFetchLeads)
       IN  /\ employees' = p.employees
           /\ IF adm # Admitted THEN EndRoute("leads", authUser, Refusal(adm), fault # "none")
              ELSE AwaitQuery("leads", authUser, <<>>, "", fault # "none")
    /\ UNCHANGED <<leads, lead_purchases, purchaseSchema, stats, vendor_plans>>
    /\ UNCHANGED nonSalesVars

\* router.get('/sales/leads') on the answer of its select
SalesLeadsAnswer(fault) ==
    /\ req.pc = "query"
    /\ req.route = "leads"
    /\ EndQuery("leads",
                IF fault = "none" THEN RouteSuccess(orderByCreatedAtDesc(leads))
                ELSE RouteFailure(500, OrDefault(QueryError(fault).message, FailedToFetchLeads)),
                fault # "none")
    /\ UNCHANGED <<leads, lead_purchases, purchaseSchema, stats, employees, vendor_plans>>
    /\ UNCHANGED nonSalesVars

\* String(req.body?.status || '').trim().toUpperCase() on the texts sent
nextStatusOf(status) ==
    CASE status = " " -> ""
      [] status = " converted " -> "CONVERTED"
      [] status = "new" -> "NEW"
      [] OTHER -> status

\* .eq('id', leadId): the id of a lead is its place in the table
LeadsById(leadId) == {i \in DOMAIN leads : IdOf(i) = leadId}

\* router.patch('/sales/leads/:leadId/status') up to the await of its update
LeadStatus(authUser, fault, leadIdParam, status) ==
    /\ req.pc = "idle"
    /\ LET p == resolveEmployeeProfile(authUser, fault)
           adm == Admission(authUser, p, TRUE, FailedToUpdateLeadStatus)
           leadId == Trim(StrOrEmpty(leadIdParam))
           nextStatus == nextStatusOf(status)
       IN  /\ employees' = p.employees
           /\ IF adm # Admitted THEN EndRoute("status", authUser, Refusal(adm), fault # "none")
              ELSE IF leadId = <<>> \/ nextStatus = ""
                THEN EndRoute("status", authUser, RouteFailure(400, LeadIdAndStatusRequired),
                              fault # "none")
              ELSE AwaitQuery("status", authUser, leadId, nextStatus, fault # "none")
    /\ UNCHANGED <<leads, lead_purchases, purchaseSchema, stats, vendor_plans>>
    /\ UNCHANGED nonSalesVars

\* router.patch('/sales/leads/:leadId/status') on the answer of its
\* update(...).eq('id', leadId).select('*').maybeSingle(): the body holds
\* the lead, or nothing (lead: null) when no row matched
LeadStatusAnswer(fault, now) ==
    /\ req.pc = "query"
    /\ req.route = "status"
    /\ LET matched == IF fault = "none" THEN LeadsById(req.leadId) ELSE {}
           updated == [i \in DOMAIN leads |->
                          IF i \in matched
                            THEN [leads[i] EXCEPT !.status = req.status, !.updated_at = now]
                          ELSE leads[i]]
       IN  /\ leads' = updated
           /\ EndQuery("leads",
                       IF fault # "none"
                         THEN RouteFailure(500, OrDefault(QueryError(fault).message,
                                                          FailedToUpdateLeadStatus))
                       ELSE RouteSuccess([i \in 1..Cardinality(matched) |->
                                             updated[CHOOSE m \in matched : TRUE]]),
                       fault # "none")
    /\ UNCHANGED <<lead_purchases, purchaseSchema, stats, employees, vendor_plans>>
    /\ UNCHANGED nonSalesVars

\* how the store answers the select on vendor_plans: besides the answers
\* of any query, the table is missing, or an error names the table
PricingFaults == QueryFaults \cup {"undefined_table", "mentions"}

PricingError(fault) ==
    CASE fault = "undefined_table" ->
            [code |-> "42P01", message |-> <<"relation", "does", "not", "exist">>]
      [] fault = "mentions" ->
            [code |-> "42501", message |-> <<"permission", "denied", "for", "table", "vendor_plans">>]
      [] OTHER -> QueryError(fault)

\* error?.code === '42P01' || errText.includes('vendor_plans')
MissingPricingTable(error) ==
    error.code = "42P01" \/ Mentions(error.message, "vendor_plans")

\* router.get('/sales/pricing-rules') up to the await of its select
PricingRules(authUser, fault) ==
    /\ req.pc = "idle"
    /\ LET p == resolveEmployeeProfile(authUser, fault)
           adm == Admission(authUser, p, TRUE, FailedToLoadPricingRules)
       IN  /\ employees' = p.employees
           /\ IF adm # Admitted THEN EndRoute("pricing", authUser, Refusal(adm), fault # "none")
              ELSE AwaitQuery("pricing", authUser, <<>>, "", fault # "none")
    /\ UNCHANGED <<leads, lead_purchases, purchaseSchema, stats, vendor_plans>>
    /\ UNCHANGED nonSalesVars

\* router.get('/sales/pricing-rules') on the answer of its select
PricingRulesAnswer(fault) ==
    /\ req.pc = "query"
    /\ req.route = "pricing"
    /\ LET error == PricingError(fault)
       IN  EndQuery("vendor_plans",
                    IF fault = "throws" \/ (error # NoError /\ ~MissingPricingTable(error))
                      THEN RouteFailure(500, OrDefault(error.message, FailedToLoadPricingRules))
                    ELSE IF error # NoError THEN RouteSuccess(<<>>)
                    ELSE RouteSuccess(orderByCreatedAtDesc(vendor_plans)),
                    fault # "none")
    /\ UNCHANGED <<leads, lead_purchases, purchaseSchema, stats, employees, vendor_plans>>
    /\ UNCHANGED nonSalesVars

\* router.post('/category-image-upload'), whose outcomes of the profile
\* lookup and of the storage enter with env
CategoryImageUpload(body, env) ==
    /\ req.pc = "idle"
    /\ EndRoute("upload", NoUser, categoryImageUpload(body, env), env.throws \/ env.uploadError)
    /\ UNCHANGED <<leads, lead_purchases, purchaseSchema, stats, employees, vendor_plans>>
    /\ UNCHANGED nonSalesVars

\* ------------------------------------------------------ the chat webhook
\* exports.handler of the FAQ responder

\* s.includes(k)
Includes(s, k) == \E i \in 0..(Len(s) - Len(k)) : SubSeq(s, i + 1, i + Len(k)) = k

\* a message of the conversation; a field that is missing is null
Message(text, content) == [text |-> text, content |-> content]

\* a responder that answers the message the conversation began with
firstMessage(messages) ==
    IF messages = <<>> THEN Message(NULL, NULL) ELSE messages[1]

\* messages[messages.length - 1] || {}
lastMessage(messages) ==
    IF messages = <<>> THEN Message(NULL, NULL) ELSE messages[Len(messages)]

\* the reply to the conversation messages: the canned texts are named
\* by their rule
faqReply(messages) ==
    LET last == lastMessage(messages)
        userText == Trim(OrElse(last.text, StrOrEmpty(last.content)))
        q == ToLowerCase(userText)
    IN  IF userText = <<>> THEN "empty"
        ELSE IF Includes(q, <<"h", "e", "l", "l", "o">>) \/ Includes(q, <<"h", "i">>) \/ Includes(q, <<"n", "a", "m", "a", "s", "t", "e">>)
          THEN "greeting"
        ELSE IF Includes(q, <<"v", "e", "n", "d", "o", "r">>) \/ Includes(q, <<"s", "u", "p", "p", "l", "i", "e", "r">>) THEN "vendor"
        ELSE IF Includes(q, <<"l", "e", "a", "d">>) \/ Includes(q, <<"l", "e", "a", "d", "s">>) THEN "lead"
        ELSE IF Includes(q, <<"p", "r", "i", "c", "e">>) \/ Includes(q, <<"p", "l", "a", "n">>) \/ Includes(q, <<"m", "e", "m", "b", "e", "r", "s", "h", "i", "p">>)
          THEN "price"
        ELSE IF Includes(q, <<"s", "u", "p", "p", "o", "r", "t">>) \/ Includes(q, <<"h", "e", "l", "p">>) THEN "support"
        ELSE IF Includes(q, <<"o", "t", "p">>) THEN "otp"
        ELSE IF Includes(q, <<"p", "a", "y", "m", "e", "n", "t">>) \/ Includes(q, <<"r", "a", "z", "o", "r", "p", "a", "y">>) THEN "payment"
        ELSE "clarify"

\* { statusCode, body: JSON.stringify({ text }) }
ChatResponse(statusCode, text) == [status |-> statusCode, text |-> text]

\* exports.handler: event.body is absent, is no JSON, is the JSON null,
\* or is an object whose messages are an array or no array
handler(event) ==
    IF event.httpMethod = "OPTIONS" THEN ChatResponse(200, "ok")
    ELSE IF event.httpMethod # "POST" THEN ChatResponse(405, "method_not_allowed")
    ELSE IF event.body.kind \in {"invalid", "null"} THEN ChatResponse(200, "server_error")
    ELSE IF event.body.kind \in {"absent", "no_array"} THEN ChatResponse(200, faqReply(<<>>))
    ELSE ChatResponse(200, faqReply(event.body.messages))

\* the webhook is invoked with event
ChatWebhook(event) ==
    /\ req.pc = "idle"
    /\ req' = [req EXCEPT !.route = "chat", !.pc = "done", !.event = event,
                          !.failed = /\ event.httpMethod = "POST"
                                     /\ event.body.kind \in {"invalid", "null"},
                          !.responses = Append(@, handler(event))]
    /\ UNCHANGED <<leads, lead_purchases, purchaseSchema, stats, employees, vendor_plans>>
    /\ UNCHANGED nonSalesVars

Requests == {"r1"}

\* one request: where its handler is, req.user, whether the profile
\* lookup failed, its now, the answers of the count
\* queries, its activation of sumRevenueByPeriod, and its response
IdleRequest ==
    [pc |-> "idle", user |-> NoUser, failed |-> FALSE, now |-> 0,
     counts |-> [q \in CountQuerySet |-> PendingCount],
     rev |-> NoRevenue, revenue7d |-> 0, res |-> NoResponse]

InitSales ==
    /\ leads = <<>>
    /\ lead_purchases = <<>>
    /\ purchaseSchema = "purchase_date"
    /\ stats = [r \in Requests |-> IdleRequest]
    /\ employees = <<>>
    /\ vendor_plans = <<>>
    /\ req = IdleRoute

Respond(r, res) == stats' = [stats EXCEPT ![r].pc = "done", ![r].res = res]

\* GET /sales/stats up to the await of Promise.all
StatsBegin(r, authUser, now, fault) ==
    /\ stats[r].pc = "idle"
    /\ LET p == resolveEmployeeProfile(authUser, fault)
           adm == Admission(authUser, p, TRUE, FailedToLoadSalesStats)
       IN  /\ employees' = p.employees
           /\ stats' = IF adm # Admitted
                         THEN [stats EXCEPT ![r].pc = "done", ![r].user = authUser,
                                            ![r].failed = fault # "none", ![r].res = adm]
                       ELSE [stats EXCEPT ![r].pc = "counts", ![r].user = authUser,
                                          ![r].now = now]
    /\ UNCHANGED <<leads, lead_purchases, purchaseSchema, vendor_plans, req>>
    /\ UNCHANGED nonSalesVars

\* the store answers count query q
StatsCount(r, q, fault) ==
    /\ stats[r].pc = "counts"
    /\ ~stats[r].counts[q].settled
    /\ stats' = [stats EXCEPT ![r].counts[q] =
                    IF fault = "error"
                      THEN [settled |-> TRUE, count |-> JsNull, error |-> CountError]
                    ELSE [settled |-> TRUE, count |-> Num(CountOf(q, stats[r].now)),
                          error |-> NoError]]
    /\ UNCHANGED <<leads, lead_purchases, purchaseSchema, employees, vendor_plans, req>>
    /\ UNCHANGED nonSalesVars

\* a countErrors that looks at the two total counts only
countErrorsOfTotals(r) ==
    SelectSeq([i \in 1..2 |-> stats[r].counts[CountQueries[i]].error],
              LAMBDA e : e # NoError)

\* countErrors: the errors of the count queries in array order
countErrors(r) ==
    SelectSeq([i \in DOMAIN CountQueries |-> stats[r].counts[CountQueries[i]].error],
              LAMBDA e : e # NoError)

\* the handler after Promise.all, up to the await of the first
\* sumRevenueByPeriod
StatsAfterCounts(r) ==
    /\ stats[r].pc = "counts"
    /\ \A q \in CountQuerySet : stats[r].counts[q].settled
    /\ IF countErrors(r) # <<>>
         THEN Respond(r, Failure(500, OrDefault(Head(countErrors(r)).message,
                                                FailedToLoadSalesStats)))
       ELSE stats' = [stats EXCEPT ![r].pc = "revenue7d",
                                   ![r].rev = BeginRevenue(CurrentWindow(stats[r].now))]
    /\ UNCHANGED <<leads, lead_purchases, purchaseSchema, employees, vendor_plans, req>>
    /\ UNCHANGED nonSalesVars

\* sumRevenueByPeriod called on its own with window w
sumRevenueByPeriod(r, w) ==
    /\ stats[r].pc = "idle"
    /\ stats' = [stats EXCEPT ![r].pc = "direct", ![r].rev = BeginRevenue(w)]
    /\ UNCHANGED <<leads, lead_purchases, purchaseSchema, employees, vendor_plans, req>>
    /\ UNCHANGED nonSalesVars

\* sumRevenueByPeriod on the answer of the query by purchase_date, up to
\* the await of the query by created_at or to its end
RevenueFirst(r, fault) ==
    /\ stats[r].rev.pc = "first"
    /\ LET rev == stats[r].rev
           answer == RevenueQuery("purchase_date", rev.w, fault)
       IN  stats' = [stats EXCEPT ![r].rev =
                        IF FallsBack(answer.error)
                          THEN [rev EXCEPT !.pc = "fallback",
                                           !.stmts = Append(@, "created_at"),
                                           !.answers = Append(@, answer.error)]
                        ELSE SettleRevenue(rev, answer)]
    /\ UNCHANGED <<leads, lead_purchases, purchaseSchema, employees, vendor_plans, req>>
    /\ UNCHANGED nonSalesVars

\* sumRevenueByPeriod on the answer of the query by created_at
RevenueFallback(r, fault) ==
    /\ stats[r].rev.pc = "fallback"
    /\ LET rev == stats[r].rev
       IN  stats' = [stats EXCEPT ![r].rev =
                        SettleRevenue(rev, RevenueQuery("created_at", rev.w, fault))]
    /\ UNCHANGED <<leads, lead_purchases, purchaseSchema, employees, vendor_plans, req>>
    /\ UNCHANGED nonSalesVars

\* the handler after the first sumRevenueByPeriod, up to the await of
\* the second
StatsRevenue7d(r) ==
    /\ stats[r].pc = "revenue7d"
    /\ stats[r].rev.pc \in {"returned", "threw"}
    /\ IF stats[r].rev.pc = "threw"
         THEN Respond(r, Failure(500, OrDefault(stats[r].rev.error, FailedToLoadSalesStats)))
       ELSE stats' = [stats EXCEPT ![r].pc = "revenuePrev7d",
                                   ![r].revenue7d = stats[r].rev.out,
                                   ![r].rev = BeginRevenue(PreviousWindow(stats[r].now))]
    /\ UNCHANGED <<leads, lead_purchases, purchaseSchema, employees, vendor_plans, req>>
    /\ UNCHANGED nonSalesVars

\* the stats object of the response
StatsOf(r, revenuePrev7d) ==
    LET count(q) == safeNum(stats[r].counts[q].count)
        totalLeads == count("totalLeads")
        totalConverted == count("totalConverted")
        revenue7d == stats[r].revenue7d
    IN  [totalLeads |-> totalLeads,
         conversionRate |-> conversionRate(totalConverted, totalLeads),
         newLeads7d |-> count("newLeads7"),
         newLeadsPrev7d |-> count("newLeadsPrev7"),
         converted7d |-> count("converted7"),
         convertedPrev7d |-> count("convertedPrev7"),
         revenue7d |-> revenue7d,
         revenuePrev7d |-> revenuePrev7d,
         newLeadsTrendPct |-> pctChange(Num(count("newLeads7")), Num(count("newLeadsPrev7"))),
         convertedTrendPct |-> pctChange(Num(count("converted7")), Num(count("convertedPrev7"))),
         revenueTrendPct |-> pctChange(Num(revenue7d), Num(revenuePrev7d))]

\* the handler after the second sumRevenueByPeriod: the response
StatsRespond(r) ==
    /\ stats[r].pc = "revenuePrev7d"
    /\ stats[r].rev.pc \in {"returned", "threw"}
    /\ IF stats[r].rev.pc = "threw"
         THEN Respond(r, Failure(500, OrDefault(stats[r].rev.error, FailedToLoadSalesStats)))
       ELSE Respond(r, Success(StatsOf(r, stats[r].rev.out)))
    /\ UNCHANGED <<leads, lead_purchases, purchaseSchema, employees, vendor_plans, req>>
    /\ UNCHANGED nonSalesVars

\* the two names the meta table's linking column has had
MetaColumns == {"micro_categories", "micro_category_id"}

InitStore ==
    /\ head_categories = <<>>
    /\ sub_categories = <<>>
    /\ micro_categories = <<>>
    /\ micro_category_meta = {}
    /\ nextId = [head |-> 0, sub |-> 0, micro |-> 0]
    /\ calls = 0
    /\ cl = [c \in Clients |-> Idle]

\* the create and update calls of client c, with ids from ids
SaveStep(c, ids) ==
    \/ \E f \in ReadFaults : HeadCreate(c, f)
    \/ \E id \in ids, f \in ReadFaults : HeadUpdate(c, id, f)
    \/ \E f \in WriteFaults : HeadUpdateWrite(c, f)
    \/ \E p \in RowIds, f \in ReadFaults : SubCreate(c, p, f)
    \/ \E id \in ids, f \in ReadFaults : SubUpdate(c, id, f)
    \/ \E f \in WriteFaults : SubUpdateWrite(c, f)
    \/ \E p \in RowIds, f \in ReadFaults : MicroCreate(c, p, f)
    \/ \E id \in ids, f \in ReadFaults : MicroUpdate(c, id, f)
    \/ \E f \in WriteFaults : MicroUpdateWrite(c, f)

\* the delete calls of client c, with ids from ids
DeleteStep(c, ids) ==
    \/ \E id \in ids, f \in ReadFaults : HeadDelete(c, id, f)
    \/ \E f \in WriteFaults : HeadDeleteWrite(c, f)
    \/ \E id \in ids, f \in ReadFaults : SubDelete(c, id, f)
    \/ \E f \in WriteFaults : SubDeleteWrite(c, f)
    \/ \E id \in ids, f \in WriteFaults : MicroDelete(c, id, f)
    \/ \E f \in WriteFaults : MicroDeleteMetaRetry(c, f)
    \/ \E f \in WriteFaults : MicroDeleteWrite(c, f)

\* one client, every call, every id string, no image
InitApi ==
    /\ InitStore
    /\ InitVendor
    /\ InitSales
    /\ InitDialog
    /\ InitFn
    /\ metaColumn \in MetaColumns
    /\ input = PlainInput
NextApi ==
    \/ SaveStep("c1", IdInputs)
    \/ DeleteStep("c1", IdInputs)
    \/ \E m \in RowIds : MetaInsert(m)
SpecApi == InitApi /\ [][NextApi]_vars

\* one client, create and update with every image input and id string
InitImage ==
    /\ InitStore
    /\ InitVendor
    /\ InitSales
    /\ InitDialog
    /\ InitFn
    /\ metaColumn = "micro_category_id"
    /\ input \in ImageInputs
NextImage == SaveStep("c1", IdInputs)
SpecImage == InitImage /\ [][NextImage]_vars

\* concurrent clients, every call on row ids, no image
InitConc ==
    /\ InitStore
    /\ InitVendor
    /\ InitSales
    /\ InitDialog
    /\ InitFn
    /\ metaColumn \in MetaColumns
    /\ input = PlainInput
NextConc ==
    \/ \E c \in Clients : SaveStep(c, RowIds)
    \/ \E c \in Clients : DeleteStep(c, RowIds)
    \/ \E m \in RowIds : MetaInsert(m)
SpecConc == InitConc /\ [][NextConc]_vars

\* two clients that only delete, on a table that holds childless rows at
\* every level: head 1, sub 2 and micro 1 (with its meta side-row) have no
\* children, head 2 has sub 1 and sub 2, sub 1 has micro 1
DeleteHeads == [id \in {IdOf(1), IdOf(2)} |-> [image_url |-> NULL]]
DeleteSubs == [id \in {IdOf(1), IdOf(2)} |-> [head_category_id |-> IdOf(2), image_url |-> NULL]]
DeleteMicros == [id \in {IdOf(1)} |-> [sub_category_id |-> IdOf(1), image_url |-> NULL]]
DeleteMeta == {IdOf(1)}

InitDelete ==
    /\ head_categories = DeleteHeads
    /\ sub_categories = DeleteSubs
    /\ micro_categories = DeleteMicros
    /\ micro_category_meta = DeleteMeta
    /\ nextId = [head |-> 2, sub |-> 2, micro |-> 1]
    /\ calls = 0
    /\ cl = [c \in Clients |-> Idle]
    /\ InitVendor
    /\ InitSales
    /\ InitDialog
    /\ InitFn
    /\ metaColumn \in MetaColumns
    /\ input = PlainInput
NextDelete == \E c \in Clients : DeleteStep(c, RowIds)
SpecDelete == InitDelete /\ [][NextDelete]_vars

\* the onboarding page: the form is edited and submitted, and the three
\* services answer either way
InitOnboarding ==
    /\ InitStore
    /\ metaColumn = "micro_category_id"
    /\ input = PlainInput
    /\ InitVendor
    /\ InitSales
    /\ InitDialog
    /\ InitFn
NextOnboarding ==
    \/ \E field \in FormFields : \E value \in FieldValues[field] : updateField(field, value)
    \/ handleSubmit
    \/ \E answer \in SignUpAnswers : signUpReturns(answer)
    \/ \E answer \in RegisterAnswers : registerVendorReturns(answer)
    \/ \E answer \in GetVendorAnswers : getVendorByUserIdReturns(answer)
SpecOnboarding == InitOnboarding /\ [][NextOnboarding]_vars

\* the dialog over one head category already in the table, whose image_url
\* is null, a URL, or text that is none
ExistingImages == {NULL, <<"https:", "//h">>, <<"x">>}

ExistingName == <<"A">>
ExistingSlug == <<"a">>

\* the texts typed into the name field
NameInputs == {<<>>, <<"&">>, <<SP, "A", "#", SP, SP, "a", SP>>}

\* the texts typed into the slug field
SlugInputs == {<<>>, <<"-", "A", "-", "-", "a", SP>>}

\* the texts typed or pasted into the URL field
DialogUrlInputs ==
    {<<>>, <<"x">>, <<"ftp:", "//h">>, <<"http:", "//h", "x">>, <<SP, "https:", SP, "//h", SP>>}

\* the files picked: one the gate accepts, one too small, one of another type
DialogFiles ==
    {NoFile,
     [type |-> PngType, size |-> IMAGE_MIN_BYTES],
     [type |-> PngType, size |-> IMAGE_MIN_BYTES - 1],
     [type |-> TextType, size |-> IMAGE_MIN_BYTES]}

\* the categories the page can open the dialog with
Categories ==
    {NoCategory} \cup
    {[id |-> id, name |-> ExistingName, slug |-> ExistingSlug,
      image_url |-> head_categories[id].image_url] : id \in DOMAIN head_categories}

InitCategoryDialog ==
    /\ \E image_url \in ExistingImages :
          head_categories = InsertRow(<<>>, IdOf(1), [image_url |-> image_url])
    /\ sub_categories = <<>>
    /\ micro_categories = <<>>
    /\ micro_category_meta = {}
    /\ nextId = [head |-> 1, sub |-> 0, micro |-> 0]
    /\ calls = 0
    /\ cl = [c \in Clients |-> Idle]
    /\ metaColumn = "micro_category_id"
    /\ input = PlainInput
    /\ InitVendor
    /\ InitSales
    /\ InitDialog
    /\ InitFn
NextCategoryDialog ==
    \/ \E category \in Categories : OpenDialog(category)
    \/ CloseDialog
    \/ \E name \in NameInputs : handleNameChange(name)
    \/ \E value \in SlugInputs : SlugChange(value)
    \/ \E f \in DialogFiles : ImageFileChange(f)
    \/ \E value \in DialogUrlInputs : ImageUrlChange(value)
    \/ handlePreviewDelete
    \/ undoRemoveExistingImage
    \/ \E resp \in UploadResponses : handleDialogSubmit(resp)
    \/ \E fault \in ReadFaults : onSaveCreate(fault)
    \/ \E fault \in ReadFaults : onSaveUpdate(fault)
    \/ \E fault \in WriteFaults : HeadUpdateWrite("c1", fault)
    \/ onSaveSettled
SpecCategoryDialog == InitCategoryDialog /\ [][NextCategoryDialog]_vars

\* the image gates: every file type and the sizes around both bounds
UpperPngType == <<"I", "M", "A", "G", "E", "/", "P">>
PaddedPngType == <<SP>> \o PngType \o <<SP>>

GateTypes == {PngType, TextType, UpperPngType, PaddedPngType, <<>>, NULL}

GateSizes ==
    {0, CATEGORY_IMAGE_MIN_BYTES - 1, CATEGORY_IMAGE_MIN_BYTES, CATEGORY_IMAGE_MIN_BYTES + 1,
     CATEGORY_IMAGE_MAX_BYTES - 1, CATEGORY_IMAGE_MAX_BYTES, CATEGORY_IMAGE_MAX_BYTES + 1}

InitRest ==
    /\ InitStore
    /\ metaColumn = "micro_category_id"
    /\ input = PlainInput
    /\ InitVendor
    /\ InitSales
    /\ InitDialog

InitGate ==
    /\ InitRest
    /\ \E type \in GateTypes, size \in GateSizes :
          fn = [file |-> [type |-> type, size |-> size],
                upload |-> "none", dialog |-> "none", router |-> "none"]
NextGate == uploadGate \/ dialogGate \/ routerGate
SpecGate == InitGate /\ [][NextGate]_vars

\* create and update, over one row in each table, with an image file that
\* passes the client's checks, against every answer of the upload endpoint: the answers the router
\* gives, and a blank and a missing publicUrl, a non-OK status and
\* success false on their own
RouterEnvs ==
    [employee : BOOLEAN, throws : BOOLEAN, uploadError : BOOLEAN, publicUrl : {<<"p">>, NULL}]

PngFile == [type |-> PngType, size |-> CATEGORY_IMAGE_MIN_BYTES]

\* response.ok, payload.success and payload.publicUrl of a router response
FetchOf(r) == UploadResponse(TRUE, r.status = 200, r.success, r.publicUrl)

EndpointResponses ==
    {FetchOf(categoryImageUpload(BodyOf(PngFile), env)) : env \in RouterEnvs}
    \cup {UploadResponse(TRUE, TRUE, TRUE, <<SP>>),
          UploadResponse(TRUE, TRUE, TRUE, <<>>),
          UploadResponse(TRUE, FALSE, TRUE, <<"p">>),
          UploadResponse(TRUE, TRUE, FALSE, <<"p">>)}

InitUpload ==
    /\ head_categories = InsertRow(<<>>, IdOf(1), [image_url |-> NULL])
    /\ sub_categories = InsertRow(<<>>, IdOf(1), [head_category_id |-> IdOf(1), image_url |-> NULL])
    /\ micro_categories = InsertRow(<<>>, IdOf(1), [sub_category_id |-> IdOf(1), image_url |-> NULL])
    /\ micro_category_meta = {}
    /\ nextId = [head |-> 1, sub |-> 1, micro |-> 1]
    /\ calls = 0
    /\ cl = [c \in Clients |-> Idle]
    /\ InitVendor
    /\ InitSales
    /\ InitDialog
    /\ InitFn
    /\ metaColumn = "micro_category_id"
    /\ \E image_url \in {<<>>, <<"u">>}, removeImage \in BOOLEAN, resp \in EndpointResponses :
          input = [data |-> CategoryData(image_url, PngFile, removeImage), resp |-> resp]
NextUpload == SaveStep("c1", RowIds)
SpecUpload == InitUpload /\ [][NextUpload]_vars

\* the sanitizers: every text of up to MaxLen characters over upper and
\* lower case, both kinds of whitespace, the hyphen, punctuation the name
\* keeps and punctuation it drops, and some longer texts.  The text is
\* run through a slug sanitizer once and again, or typed into the name
\* field of the add dialog, or met by the dialog as the slug of the row
\* it edits and as the text typed into its slug field.
SanitizeAlphabet == {"A", "a", SP, TAB, "-", "!", "&"}

Electronics == <<"E", "l", "e", "c", "t", "r", "o", "n", "i", "c", "s">>

LongTexts ==
    {<<SP, SP>> \o Electronics \o <<"!", "!", SP, SP>>,
     <<"-", "-", "a", "1", TAB, TAB, "-", SP, "B", "-", "-">>}

SanitizeTexts ==
    UNION {[1..n -> SanitizeAlphabet] : n \in 0..MaxLen} \cup LongTexts

SanitizeModes == {"apply", "name", "slug"}

\* the fields create and update write from the payload
InsertFields(data) == [name |-> Trim(data.name), slug |-> Trim(data.slug)]

\* a slug sanitizer applied to the text, then to its own result
applySanitizer(f) ==
    /\ fn.mode = "apply"
    /\ fn.f \in {"none", f}
    /\ Len(fn.outs) < 2
    /\ LET arg == IF fn.outs = <<>> THEN fn.x ELSE fn.outs[Len(fn.outs)]
           out == IF f = "safeSlug" THEN safeSlug(arg) ELSE sanitizeSlugInput(arg)
       IN  fn' = [fn EXCEPT !.f = f, !.outs = Append(@, out)]
    /\ UNCHANGED nonFnVars

\* the categories the page opens the dialog with: none in the name mode,
\* none or the row whose slug is the text in the slug mode
SanitizeCategories ==
    {NoCategory} \cup
    {[id |-> id, name |-> ExistingName, slug |-> fn.x, image_url |-> NULL] :
        id \in {i \in DOMAIN head_categories : fn.mode = "slug"}}

InitSanitize ==
    /\ head_categories = InsertRow(<<>>, IdOf(1), [image_url |-> NULL])
    /\ sub_categories = <<>>
    /\ micro_categories = <<>>
    /\ micro_category_meta = {}
    /\ nextId = [head |-> 1, sub |-> 0, micro |-> 0]
    /\ calls = 0
    /\ cl = [c \in Clients |-> Idle]
    /\ metaColumn = "micro_category_id"
    /\ input = PlainInput
    /\ InitVendor
    /\ InitSales
    /\ InitDialog
    /\ \E x \in SanitizeTexts, mode \in SanitizeModes :
          fn = [x |-> x, mode |-> mode, f |-> "none", outs |-> <<>>]
NextSanitize ==
    \/ applySanitizer("sanitizeSlugInput")
    \/ applySanitizer("safeSlug")
    \/ fn.mode # "apply" /\ \E category \in SanitizeCategories : OpenDialog(category)
    \/ fn.mode = "name" /\ handleNameChange(fn.x)
    \/ fn.mode = "slug" /\ handleNameChange(ExistingName)
    \/ fn.mode = "slug" /\ SlugChange(fn.x)
    \/ handleDialogSubmit(PlainInput.resp)
    \/ \E fault \in ReadFaults : onSaveCreate(fault)
    \/ \E fault \in ReadFaults : onSaveUpdate(fault)
    \/ \E fault \in WriteFaults : HeadUpdateWrite("c1", fault)
    \/ onSaveSettled
SpecSanitize == InitSanitize /\ [][NextSanitize]_vars

\* pctChange over small numbers of either sign around zero, the pair
\* (110, 100), and values that are no numbers
PctInputs ==
    {Num(n) : n \in (-2..MaxNum) \cup {100, 110}} \cup {NotANumber, JsNull, Text(5)}

PendingValue == [t |-> "pending", v |-> 0]

InitPct ==
    /\ InitRest
    /\ \E current \in PctInputs, prev \in PctInputs :
          fn = [current |-> current, prev |-> prev, out |-> PendingValue]

applyPctChange ==
    /\ fn.out = PendingValue
    /\ fn' = [fn EXCEPT !.out = pctChange(fn.current, fn.prev)]
    /\ UNCHANGED nonFnVars

NextPct == applyPctChange
SpecPct == InitPct /\ [][NextPct]_vars

\* GET /sales/stats over every leads table of up to MaxLeads rows, each
\* new, converted or closed and created in the previous window's last
\* hour or the current window's first, against both layouts of
\* lead_purchases and every answer of the store
StatsNow == 14 * HoursPerDay + 9

WindowInstants == {start7(StatsNow) - 1, start7(StatsNow)}

Lead(status, created_at) ==
    [status |-> status, created_at |-> created_at, updated_at |-> created_at]

LeadKinds ==
    <<Lead("NEW", start7(StatsNow) - 1), Lead("NEW", start7(StatsNow)),
      Lead("CONVERTED", start7(StatsNow) - 1), Lead("CONVERTED", start7(StatsNow)),
      Lead("CLOSED", start7(StatsNow) - 1), Lead("CLOSED", start7(StatsNow))>>

\* the tables up to the order of their rows
LeadTables ==
    UNION {{[i \in 1..n |-> LeadKinds[k[i]]] :
               k \in {f \in [1..n -> DOMAIN LeadKinds] : \A i \in 1..(n - 1) : f[i] <= f[i + 1]}} :
           n \in 0..MaxLeads}

Purchase(amount, purchase_date, created_at) ==
    [amount |-> amount, purchase_date |-> purchase_date, created_at |-> created_at]

StatsPurchases ==
    <<Purchase(Num(2), start7(StatsNow), start7(StatsNow)),
      Purchase(Num(1), start7(StatsNow) - 1, start7(StatsNow) - 1)>>

PurchaseSchemas == {"purchase_date", "created_at"}

\* the employees table: a sales employee linked to a session user, and a
\* data entry employee not linked yet
StatsEmployees ==
    <<[user_id |-> <<"u", "1">>, email |-> <<"s">>, role |-> "SALES"],
      [user_id |-> NULL, email |-> <<"d">>, role |-> "DATA_ENTRY"]>>

\* the sessions: the sales employee; an administrator found by e-mail
\* (typed otherwise); a vendor who is the data entry employee; an
\* administrator without a profile
SalesUser == AuthUser(<<"u", "1">>, <<"s">>, "")
Sessions ==
    {SalesUser,
     AuthUser(<<SP, "u", "2", SP>>, <<"D", SP>>, "admin"),
     AuthUser(<<"u", "3">>, <<"d">>, "vendor"),
     AuthUser(<<"u", "4">>, NULL, "ADMIN")}

\* the sessions of the statistics page
StatsUsers == {u \in Sessions : u.role # "admin"}

InitStats ==
    /\ InitStore
    /\ metaColumn = "micro_category_id"
    /\ input = PlainInput
    /\ InitVendor
    /\ InitDialog
    /\ InitFn
    /\ leads \in LeadTables
    /\ lead_purchases = StatsPurchases
    /\ purchaseSchema \in PurchaseSchemas
    /\ stats = [r \in Requests |-> IdleRequest]
    /\ employees = StatsEmployees
    /\ vendor_plans = <<>>
    /\ req = IdleRoute
NextStats ==
    \/ \E authUser \in StatsUsers, fault \in ProfileFaults :
          StatsBegin("r1", authUser, StatsNow, fault)
    \/ \E q \in CountQuerySet, fault \in CountFaults : StatsCount("r1", q, fault)
    \/ StatsAfterCounts("r1")
    \/ \E fault \in RevenueFaults : RevenueFirst("r1", fault)
    \/ \E fault \in RevenueFaults : RevenueFallback("r1", fault)
    \/ StatsRevenue7d("r1")
    \/ StatsRespond("r1")
SpecStats == InitStats /\ [][NextStats]_vars

\* sumRevenueByPeriod over every lead_purchases table of up to
\* MaxPurchases rows, with amounts that are numbers, null or a text, and
\* dates on either side of the boundary between the two windows
AmountInputs == {Num(1), Num(2), JsNull, Text(4)}

PurchaseRows ==
    {Purchase(amount, purchase_date, created_at) :
        amount \in AmountInputs, purchase_date \in WindowInstants, created_at \in WindowInstants}

PurchaseTables == UNION {[1..n -> PurchaseRows] : n \in 0..MaxPurchases}

RevenueWindows == {CurrentWindow(StatsNow), PreviousWindow(StatsNow)}

InitRevenue ==
    /\ InitStore
    /\ metaColumn = "micro_category_id"
    /\ input = PlainInput
    /\ InitVendor
    /\ InitDialog
    /\ InitFn
    /\ leads = <<>>
    /\ lead_purchases \in PurchaseTables
    /\ purchaseSchema \in PurchaseSchemas
    /\ stats = [r \in Requests |-> IdleRequest]
    /\ employees = <<>>
    /\ vendor_plans = <<>>
    /\ req = IdleRoute
NextRevenue ==
    \/ \E w \in RevenueWindows : sumRevenueByPeriod("r1", w)
    \/ \E fault \in RevenueFaults : RevenueFirst("r1", fault)
    \/ \E fault \in RevenueFaults : RevenueFallback("r1", fault)
SpecRevenue == InitRevenue /\ [][NextRevenue]_vars

\* one request to a route of the router or to the chat webhook, by every
\* kind of session, with every answer of the store
RouteLeads ==
    {<<>>, <<Lead("NEW", start7(StatsNow))>>,
     <<Lead("CONVERTED", start7(StatsNow) - 1), Lead("NEW", start7(StatsNow))>>}

PricingPlans ==
    {<<>>, <<[name |-> "Gold", created_at |-> 1], [name |-> "Silver", created_at |-> 2]>>}

\* the lead ids and the status texts a status update is sent with
LeadIdParams == {NULL, <<SP>>, <<"1">>, <<SP, "1", SP>>, <<"9">>}
StatusInputs == {"", " ", " converted ", "new", "CLOSED"}

\* the events the webhook is invoked with in this specification
RouteEvents ==
    {[httpMethod |-> method, body |-> body] :
        method \in {"POST", "GET"},
        body \in {[kind |-> "invalid", messages |-> <<>>],
                  [kind |-> "null", messages |-> <<>>],
                  [kind |-> "object", messages |-> <<Message(<<"h", "i">>, NULL)>>]}}

InitRoutes ==
    /\ InitStore
    /\ metaColumn = "micro_category_id"
    /\ input = PlainInput
    /\ InitVendor
    /\ InitDialog
    /\ InitFn
    /\ leads \in RouteLeads
    /\ lead_purchases = StatsPurchases
    /\ purchaseSchema \in PurchaseSchemas
    /\ stats = [r \in Requests |-> IdleRequest]
    /\ employees = StatsEmployees
    /\ vendor_plans \in PricingPlans
    /\ req = IdleRoute
\* a behaviour holds one request
NoRequest == req.pc = "idle" /\ stats["r1"].pc = "idle"

NextRoutes ==
    \/ \E authUser \in Sessions, fault \in ProfileFaults :
          NoRequest /\ Me(authUser, fault)
    \/ \E authUser \in Sessions, fault \in ProfileFaults :
          NoRequest /\ SalesLeads(authUser, fault)
    \/ \E fault \in QueryFaults : SalesLeadsAnswer(fault)
    \/ \E authUser \in Sessions, fault \in ProfileFaults,
          leadId \in LeadIdParams, status \in StatusInputs :
            NoRequest /\ LeadStatus(authUser, fault, leadId, status)
    \/ \E fault \in QueryFaults : LeadStatusAnswer(fault, StatsNow)
    \/ \E authUser \in Sessions, fault \in ProfileFaults :
          NoRequest /\ PricingRules(authUser, fault)
    \/ \E fault \in PricingFaults : PricingRulesAnswer(fault)
    \/ \E f \in Files, env \in RouterEnvs :
          NoRequest /\ CategoryImageUpload(BodyOf(f), env)
    \/ \E event \in RouteEvents : NoRequest /\ ChatWebhook(event)
    \/ \E authUser \in Sessions, fault \in ProfileFaults :
          NoRequest /\ StatsBegin("r1", authUser, StatsNow, fault)
    \/ \E q \in CountQuerySet : StatsCount("r1", q, "none")
    \/ StatsAfterCounts("r1")
    \/ \E fault \in {"none", "error"} : RevenueFirst("r1", fault)
    \/ RevenueFallback("r1", "none")
    \/ StatsRevenue7d("r1")
    \/ StatsRespond("r1")
SpecRoutes == InitRoutes /\ [][NextRoutes]_vars

\* the chat webhook alone: conversations of up to MaxMessages messages
\* whose texts hold no keyword, one, several, a keyword inside a word,
\* upper case and blanks, in the text or in the content field
ChatTexts ==
    {NULL, <<>>, <<SP>>, <<"H", "i">>, <<"s", "h", "i", "p", "p", "i", "n", "g">>, <<SP, "V", "e", "n", "d", "o", "r", SP, "l", "e", "a", "d", "s", SP>>, <<"L", "E", "A", "D", SP, "p", "r", "i", "c", "e">>, <<"p", "l", "a", "n", SP, "h", "e", "l", "p">>,
     <<"h", "e", "l", "p", SP, "o", "t", "p">>, <<"o", "t", "p", SP, "p", "a", "y", "m", "e", "n", "t">>, <<"r", "a", "z", "o", "r", "p", "a", "y">>, <<"x", "y", "z">>}

ChatMessages ==
    {Message(text, NULL) : text \in ChatTexts} \cup {Message(NULL, <<"s", "u", "p", "p", "l", "i", "e", "r">>), Message(<<>>, <<"o", "t", "p">>)}

ChatEvents ==
    {[httpMethod |-> method, body |-> [kind |-> kind, messages |-> <<>>]] :
        method \in {"POST", "GET", "OPTIONS"},
        kind \in {"absent", "invalid", "null", "no_array", "object"}}
    \cup {[httpMethod |-> "POST", body |-> [kind |-> "object", messages |-> messages]] :
             messages \in UNION {[1..n -> ChatMessages] : n \in 1..MaxMessages}}

InitChat ==
    /\ InitStore
    /\ metaColumn = "micro_category_id"
    /\ input = PlainInput
    /\ InitVendor
    /\ InitDialog
    /\ InitFn
    /\ InitSales
NextChat == \E event \in ChatEvents : ChatWebhook(event)
SpecChat == InitChat /\ [][NextChat]_vars

\* the statistics of a table with one lead and one purchase dated at, just
\* before and just after each edge of the two windows, asked for at
\* midnight, in the morning and in the last hour of the day
WindowNows == {14 * HoursPerDay, StatsNow, 14 * HoursPerDay + 23}

WindowEdges ==
    UNION {{edge + d : d \in {0 - 1, 0, 1},
                       edge \in {now - 13 * HoursPerDay - (now % HoursPerDay),
                                 now - 6 * HoursPerDay - (now % HoursPerDay),
                                 now}} :
           now \in WindowNows}

InitWindows ==
    /\ InitStore
    /\ metaColumn = "micro_category_id"
    /\ input = PlainInput
    /\ InitVendor
    /\ InitDialog
    /\ InitFn
    /\ \E at \in WindowEdges :
          /\ leads = <<Lead("CONVERTED", at)>>
          /\ lead_purchases = <<Purchase(Num(2), at, at)>>
    /\ purchaseSchema \in PurchaseSchemas
    /\ stats = [r \in Requests |-> IdleRequest]
    /\ employees = StatsEmployees
    /\ vendor_plans = <<>>
    /\ req = IdleRoute
NextWindows ==
    \/ \E now \in WindowNows : StatsBegin("r1", SalesUser, now, "none")
    \/ \E q \in CountQuerySet : StatsCount("r1", q, "none")
    \/ StatsAfterCounts("r1")
    \/ RevenueFirst("r1", "none")
    \/ RevenueFallback("r1", "none")
    \/ StatsRevenue7d("r1")
    \/ StatsRespond("r1")
SpecWindows == InitWindows /\ [][NextWindows]_vars

\* a lead is inserted by the part of the system that takes in enquiries
InsertLead(now) ==
    /\ Len(leads) < MaxLeads
    /\ leads' = Append(leads, Lead("NEW", now))
    /\ UNCHANGED <<lead_purchases, purchaseSchema, stats, employees, vendor_plans, req>>
    /\ UNCHANGED nonSalesVars

\* the statistics are asked for while leads are inserted and a status
\* update is made
InitStatsConc ==
    /\ InitStore
    /\ metaColumn = "micro_category_id"
    /\ input = PlainInput
    /\ InitVendor
    /\ InitDialog
    /\ InitFn
    /\ leads \in {<<>>, <<Lead("CONVERTED", start7(StatsNow))>>}
    /\ lead_purchases = StatsPurchases
    /\ purchaseSchema \in PurchaseSchemas
    /\ stats = [r \in Requests |-> IdleRequest]
    /\ employees = StatsEmployees
    /\ vendor_plans = <<>>
    /\ req = IdleRoute
NextStatsConc ==
    \/ StatsBegin("r1", SalesUser, StatsNow, "none")
    \/ \E q \in CountQuerySet : StatsCount("r1", q, "none")
    \/ StatsAfterCounts("r1")
    \/ RevenueFirst("r1", "none")
    \/ RevenueFallback("r1", "none")
    \/ StatsRevenue7d("r1")
    \/ StatsRespond("r1")
    \/ InsertLead(StatsNow)
    \/ \E n \in 1..MaxLeads, status \in {" converted ", "new"} :
          LeadStatus(SalesUser, "none", IdOf(n), status)
    \/ LeadStatusAnswer("none", StatsNow)
SpecStatsConc == InitStatsConc /\ [][NextStatsConc]_vars

\* ------------------------------------------------------------------ claims

\* client c begins call op in this step
CallBegins(c, op) ==
    /\ cl[c].pc = "idle"
    /\ calls' = calls + 1
    /\ cl'[c].op = op

\* client c ends call op in this step, resumed from the await of step pc
CallResumes(c, pc) == cl[c].pc = pc /\ cl'[c].pc # pc

\* table t2 is table t without exactly the row id
RemovedExactly(t, t2, id) ==
    /\ id \in DOMAIN t
    /\ DOMAIN t2 = DOMAIN t \ {id}
    /\ \A x \in DOMAIN t2 : t2[x] = t[x]

ChildrenOfHead(id) ==
    {x \in DOMAIN sub_categories : sub_categories[x].head_category_id = id}

ChildrenOfSub(id) ==
    {x \in DOMAIN micro_categories : micro_categories[x].sub_category_id = id}

\* the ids the store has given to rows of the head and sub tables
InsertedHeadIds == {IdOf(n) : n \in 1..nextId.head}
InsertedSubIds == {IdOf(n) : n \in 1..nextId.sub}

\* C1: for head and sub categories, a delete(id) whose child query the
\* store answers raises 'Cannot delete' whenever a row of the next level
\* down references id; and when no child references id, the row exists and
\* the store executes the delete statement, delete(id) removes exactly that
\* row, changes no other table and returns without error.
C1_DeleteContract ==
    [][\A c \in Clients :
        /\ (CallBegins(c, "head.delete") /\ ChildrenOfHead(cl'[c].id) # {}
                /\ cl'[c].answer = "none")
             => cl'[c].pc = "idle" /\ cl'[c].out = "CannotDelete"
        /\ (CallBegins(c, "sub.delete") /\ ChildrenOfSub(cl'[c].id) # {}
                /\ cl'[c].answer = "none")
             => cl'[c].pc = "idle" /\ cl'[c].out = "CannotDelete"
        /\ (CallBegins(c, "head.delete") /\ ChildrenOfHead(cl'[c].id) = {}
                /\ cl'[c].answer = "none")
             => cl'[c].pc = "head.delete.write"
        /\ (CallBegins(c, "sub.delete") /\ ChildrenOfSub(cl'[c].id) = {}
                /\ cl'[c].answer = "none")
             => cl'[c].pc = "sub.delete.write"
        /\ (CallResumes(c, "head.delete.write") /\ ChildrenOfHead(cl[c].id) = {}
                /\ cl[c].id \in DOMAIN head_categories /\ cl'[c].answer = "none")
             => /\ cl'[c].pc = "idle" /\ cl'[c].out = "ok"
                /\ RemovedExactly(head_categories, head_categories', cl[c].id)
                /\ UNCHANGED <<sub_categories, micro_categories, micro_category_meta>>
        /\ (CallResumes(c, "sub.delete.write") /\ ChildrenOfSub(cl[c].id) = {}
                /\ cl[c].id \in DOMAIN sub_categories /\ cl'[c].answer = "none")
             => /\ cl'[c].pc = "idle" /\ cl'[c].out = "ok"
                /\ RemovedExactly(sub_categories, sub_categories', cl[c].id)
                /\ UNCHANGED <<head_categories, micro_categories, micro_category_meta>>
      ]_vars

\* a head category was deleted and returned without error while a sub
\* category of another head stayed in the store
C1_Witness ==
    \E c \in Clients :
        /\ cl[c].pc = "idle" /\ cl[c].op = "head.delete" /\ cl[c].out = "ok"
        /\ cl[c].id \notin DOMAIN head_categories
        /\ cl[c].id \in InsertedHeadIds
        /\ DOMAIN sub_categories # {}

\* C2: no reachable state holds a sub_categories row whose head_category_id,
\* or a micro_categories row whose sub_category_id, names a parent row that
\* has been deleted.
C2_NoChildOfDeletedParent ==
    /\ \A x \in DOMAIN sub_categories :
          sub_categories[x].head_category_id
              \notin InsertedHeadIds \ DOMAIN head_categories
    /\ \A x \in DOMAIN micro_categories :
          micro_categories[x].sub_category_id
              \notin InsertedSubIds \ DOMAIN sub_categories

UpdateOps == {"head.update", "sub.update", "micro.update"}

TableOf(op) ==
    CASE op \in {"head.create", "head.update", "head.delete"} -> head_categories
      [] op \in {"sub.create", "sub.update", "sub.delete"} -> sub_categories
      [] OTHER -> micro_categories

\* C3: at every level, update(id, fields) with an id whose trimmed text
\* matches no row (a blank or whitespace-only id included) ends by raising:
\* the level's 'not found' error whenever the existence probe is answered
\* (a blank id raises it without a probe), and in every case with no image
\* upload and no update statement issued and the store unchanged.
C3_UpdateNotFound ==
    [][\A c \in Clients : \A op \in UpdateOps :
        (CallBegins(c, op) /\ MatchId(TableOf(op), cl'[c].id) = {})
          => /\ cl'[c].pc = "idle"
             /\ cl'[c].out \in {"NotFound", "StoreError"}
             /\ cl'[c].answer = "none" => cl'[c].out = "NotFound"
             /\ cl'[c].stmts \subseteq {"select"}
             /\ cl'[c].id = <<>> => cl'[c].stmts = {} /\ cl'[c].out = "NotFound"
             /\ UNCHANGED storeVars
      ]_vars

\* an update carrying an image file that passes the upload checks raised
\* 'not found' for a blank id, and another row of that table exists
C3_Witness ==
    \E c \in Clients :
        /\ cl[c].pc = "idle" /\ cl[c].op = "micro.update" /\ cl[c].out = "NotFound"
        /\ cl[c].id = <<>>
        /\ "upload" \notin cl[c].stmts
        /\ DOMAIN micro_categories # {}
        /\ input.data.imageFile.type = PngType
        /\ ~uploadCategoryImage(input.data.imageFile, input.resp).threw

\* C4: update(id, fields) never returns {id} as success when its update
\* statement affected no row.
C4_UpdateNeverSilent ==
    \A c \in Clients :
        (cl[c].pc = "idle" /\ cl[c].op \in UpdateOps /\ cl[c].out = "ok")
          => cl[c].affected > 0

DeleteWriteSteps ==
    {"head.delete.write", "sub.delete.write", "micro.delete.write"}

TableAt(pc) ==
    CASE pc = "head.delete.write" -> head_categories
      [] pc = "sub.delete.write" -> sub_categories
      [] OTHER -> micro_categories

\* C5: at every level, a delete(id) that reaches its delete statement and
\* whose statement removes zero rows never returns normally; when the store
\* answers the statement without an error object it raises 'Delete failed'.
C5_DeleteFailed ==
    [][\A c \in Clients : \A pc \in DeleteWriteSteps :
        (CallResumes(c, pc) /\ TableAt(pc)' = TableAt(pc))
          => /\ cl'[c].pc = "idle"
             /\ cl'[c].out \in {"DeleteFailed", "StoreError"}
             /\ cl'[c].answer # "error" => cl'[c].out = "DeleteFailed"
      ]_vars

\* a micro category delete raised 'Delete failed' because the write was
\* blocked: the row is still in the table
C5_Witness ==
    \E c \in Clients :
        /\ cl[c].pc = "idle" /\ cl[c].op = "micro.delete"
        /\ cl[c].out = "DeleteFailed" /\ cl[c].answer = "blocked"
        /\ cl[c].id \in DOMAIN micro_categories

\* C6: when delete(id) on a head or sub category is rejected because
\* children exist, the message reports exactly the number of child rows
\* referencing id, the call issues no delete statement and every category
\* table is left unchanged.
C6_ConflictCount ==
    [][\A c \in Clients :
        /\ (CallBegins(c, "head.delete") /\ cl'[c].out = "CannotDelete")
             => /\ cl'[c].count = Cardinality(ChildrenOfHead(cl'[c].id))
                /\ cl'[c].count >= 1
                /\ cl'[c].pc = "idle" /\ "delete" \notin cl'[c].stmts
                /\ UNCHANGED storeVars
        /\ (CallBegins(c, "sub.delete") /\ cl'[c].out = "CannotDelete")
             => /\ cl'[c].count = Cardinality(ChildrenOfSub(cl'[c].id))
                /\ cl'[c].count >= 1
                /\ cl'[c].pc = "idle" /\ "delete" \notin cl'[c].stmts
                /\ UNCHANGED storeVars
      ]_vars

\* the delete of a sub category with one micro category beneath it was
\* rejected with the count 1, and both rows are still in the store
C6_Witness ==
    \E c \in Clients :
        /\ cl[c].pc = "idle" /\ cl[c].op = "sub.delete" /\ cl[c].out = "CannotDelete"
        /\ cl[c].count = 1
        /\ cl[c].id \in DOMAIN sub_categories
        /\ Cardinality(ChildrenOfSub(cl[c].id)) = 1

SaveOps == {"head.create", "sub.create", "micro.create"} \cup UpdateOps

\* the image_url the claim names for a request
C10_Resolved(data, resp) ==
    IF data.removeImage THEN NULL
    ELSE IF data.imageFile # NoFile THEN Trim(StrOrEmpty(resp.publicUrl))
    ELSE IF data.image_url = NULL \/ Trim(StrOrEmpty(data.image_url)) = <<>> THEN NULL
    ELSE Trim(data.image_url)

\* C10: in create and update at every level the image_url of the insert or
\* update statement, and of every row the statement wrote, is null if
\* removeImage is set; otherwise the public URL returned by uploading
\* imageFile if a file is supplied; otherwise the trimmed pasted URL, or
\* null if it is blank.
C10_ImageResolution ==
    \A c \in Clients :
        (cl[c].pc = "idle" /\ cl[c].op \in SaveOps
            /\ cl[c].stmts \cap {"insert", "update"} # {})
          => /\ cl[c].img = C10_Resolved(input.data, input.resp)
             /\ (cl[c].out = "ok" /\ cl[c].affected > 0)
                  => /\ cl[c].ret \in DOMAIN TableOf(cl[c].op)
                     /\ TableOf(cl[c].op)[cl[c].ret].image_url
                            = C10_Resolved(input.data, input.resp)

\* a sub category was updated with both a file and a pasted URL: the row
\* holds the uploaded file's public URL
C10_Witness ==
    \E c \in Clients :
        /\ cl[c].pc = "idle" /\ cl[c].op = "sub.update" /\ cl[c].out = "ok"
        /\ cl[c].affected = 1
        /\ input.data.imageFile # NoFile
        /\ input.data.image_url = <<SP, "u", SP>>
        /\ ~input.data.removeImage
        /\ sub_categories[cl[c].ret].image_url = <<"p">>

\* --- vendor onboarding

\* the calls handleSubmit may have made so far, in their order
CallOrder == <<"signUp", "registerVendor", "getVendorByUserId">>

\* the handler of the onboarding form moves in this step
HandlerSteps == vo'.pc # vo.pc

\* C7: the onboarding submit makes its three calls strictly in order:
\* registerVendor is called only in the step in which signUp answers with
\* a new identity, and with that identity's id; getVendorByUserId only in
\* the step in which registerVendor succeeds, with the same id; and the
\* handler shows the success toast, carrying the vendor_id of that
\* identity's profile, and resets the form only when the third call has
\* returned the vendor after the first two succeeded.
C7_CallsInOrder ==
    [][/\ \A i \in 1..Len(vo'.callLog) : vo'.callLog[i].call = CallOrder[i]
       /\ (HandlerSteps /\ vo'.pc = "registerVendor") =>
              /\ vo.pc = "signUp"
              /\ vo'.answers = <<"user">>
              /\ vo'.userId \in authUsers' \ authUsers
              /\ vo'.callLog[2].userId = vo'.userId
       /\ (HandlerSteps /\ vo'.pc = "getVendorByUserId") =>
              /\ vo.pc = "registerVendor"
              /\ vo'.answers = <<"user", "ok">>
              /\ vo'.userId = vo.userId
              /\ vo.userId \in authUsers
              /\ vo'.callLog[3].userId = vo.userId
       /\ (HandlerSteps /\ (    (vo'.toast # vo.toast /\ vo'.toast.title = "Vendor Created")
                           \/ vo'.formData # vo.formData)) =>
              /\ vo.pc = "getVendorByUserId"
              /\ vo'.answers = <<"user", "ok", "vendor">>
              /\ Len(vo.callLog) = 3
              /\ vo'.toast.title = "Vendor Created"
              /\ [user_id |-> vo.userId, vendor_id |-> vo'.toast.description] \in vendors
              /\ vo'.formData = EmptyForm
    ]_vars

\* a filled form went through all three calls: the toast shows the new
\* vendor's identifier and the form is empty again
C7_Witness ==
    /\ vo.pc = "idle"
    /\ vo.submitted.email # ""
    /\ vo.answers = <<"user", "ok", "vendor">>
    /\ vo.toast.title = "Vendor Created"
    /\ vo.toast.description = VendorIdOf(vo.userId)
    /\ vo.formData = EmptyForm
    /\ ~vo.loading

\* C8: when registerVendor or getVendorByUserId fails after signUp has
\* created the identity, the handler ends there: the error toast is
\* shown, no further call is made, the identity is still there and no
\* profile is touched, the form keeps its data and loading is false again.
C8_NoCompensation ==
    [][(/\ vo.pc \in {"registerVendor", "getVendorByUserId"}
        /\ Len(vo'.answers) = Len(vo.answers) + 1
        /\ vo'.answers[Len(vo'.answers)] \in {"throws", "null"}
        /\ vo.answers[1] = "user") =>
           /\ vo'.pc = "idle"
           /\ vo'.toast.title = "Error"
           /\ vo'.toast.variant = "destructive"
           /\ vo'.callLog = vo.callLog
           /\ authUsers' = authUsers
           /\ vo.userId \in authUsers'
           /\ vendors' = vendors
           /\ vo'.formData = vo.formData
           /\ ~vo'.loading
    ]_vars

\* registerVendor threw for a filled form: the identity is left without a
\* profile, the form still holds the data
C8_Witness ==
    /\ vo.answers = <<"user", "throws">>
    /\ vo.pc = "idle"
    /\ vo.toast.variant = "destructive"
    /\ vo.userId \in authUsers
    /\ \A v \in vendors : v.user_id # vo.userId
    /\ vo.formData # EmptyForm
    /\ ~vo.loading

\* --- category dialog

\* C9: whatever was typed, picked, removed and undone in the dialog, the
\* image_url of the statement a successful save sends, and of the row it
\* writes, is null, an http/https URL that validate accepted, or the URL
\* the upload answered with for the picked file.
C9_SavedImageUrl ==
    LET call == cl["c1"]
    IN  (dlg.loading /\ call.out = "ok" /\ call.op \in {"head.create", "head.update"}) =>
           /\ \/ call.img = NULL
              \/ isValidHttpUrl(call.img)
              \/ /\ input.data.imageFile # NoFile
                 /\ call.img = Trim(StrOrEmpty(input.resp.publicUrl))
           /\ call.affected > 0 => head_categories[call.ret].image_url = call.img

\* text that is no URL was left in the URL field when a file was picked,
\* and the save wrote the uploaded file's URL
C9_Witness ==
    /\ dlg.loading
    /\ cl["c1"].out = "ok"
    /\ cl["c1"].affected > 0
    /\ input.data.image_url = <<"x">>
    /\ input.data.imageFile # NoFile
    /\ head_categories[cl["c1"].ret].image_url = <<"p">>

\* --- image gates

\* the size lies in [102400, 819200]
C11_SizeInRange == fn.file.size >= 102400 /\ fn.file.size <= 819200

\* C11 as stated: each client-side image gate accepts the file exactly when
\* its MIME type, as given, starts with 'image/' and its size lies in
\* [102400, 819200].
C11_GateAsStated ==
    LET asStated == Verdict(StartsWith(StrOrEmpty(fn.file.type), ImagePrefix) /\ C11_SizeInRange)
    IN  /\ fn.upload # "none" => fn.upload = asStated
        /\ fn.dialog # "none" => fn.dialog = asStated

\* C11, amended: a file is accepted exactly when its MIME type starts with
\* 'image/' and its size lies in [102400, 819200] bytes, both ends included,
\* where uploadCategoryImage compares the type trimmed and in lower case
\* and the dialog compares it as given.
C11_ImageGate ==
    /\ fn.upload # "none" =>
          fn.upload = Verdict(/\ StartsWith(ToLowerCase(Trim(StrOrEmpty(fn.file.type))), ImagePrefix)
                              /\ C11_SizeInRange)
    /\ fn.dialog # "none" =>
          fn.dialog = Verdict(/\ StartsWith(StrOrEmpty(fn.file.type), ImagePrefix)
                              /\ C11_SizeInRange)

\* an image of exactly 800KB has passed both gates
C11_Witness ==
    /\ fn.file = [type |-> PngType, size |-> 819200]
    /\ fn.upload = "accept"
    /\ fn.dialog = "accept"

\* C12: the endpoint accepts a payload exactly when the dialog and
\* uploadCategoryImage both accept a file of the same type and size.
C12_RouterMirrorsClient ==
    (fn.upload # "none" /\ fn.dialog # "none" /\ fn.router # "none") =>
        (fn.router = "accept" <=> (fn.upload = "accept" /\ fn.dialog = "accept"))

\* --- image upload failures

\* the endpoint's answer is non-OK, reports success false, or carries a
\* missing or blank publicUrl
C13_UploadFails ==
    \/ ~input.resp.ok
    \/ ~input.resp.success
    \/ input.resp.publicUrl = NULL
    \/ Trim(input.resp.publicUrl) = <<>>

\* the create or update call op of client c ends in this step
C13_CallEnds(c, op) ==
    /\ cl'[c] # cl[c]
    /\ cl'[c].pc = "idle"
    /\ cl'[c].op = op

\* C13: when the upload endpoint answers non-OK, with success false, or
\* with a missing or blank publicUrl, uploadCategoryImage fails: a create
\* or update that reached the upload raises its error, and no create or
\* update in that situation returns, issues an insert or update statement,
\* or changes a table.
C13_UploadFailureRaises ==
    [][\A op \in SaveOps :
        (C13_CallEnds("c1", op) /\ C13_UploadFails)
          => /\ cl'["c1"].out # "ok"
             /\ "upload" \in cl'["c1"].stmts => cl'["c1"].out = "UploadError"
             /\ op \in {"head.create", "sub.create", "micro.create"} => "upload" \in cl'["c1"].stmts
             /\ cl'["c1"].stmts \cap {"insert", "update"} = {}
             /\ UNCHANGED storeVars
      ]_vars

\* a sub category update whose upload came back with a blank publicUrl
\* raised after the upload, and the row it names keeps its image
C13_Witness ==
    /\ cl["c1"].pc = "idle"
    /\ cl["c1"].op = "sub.update"
    /\ cl["c1"].out = "UploadError"
    /\ "upload" \in cl["c1"].stmts
    /\ input.resp = UploadResponse(TRUE, TRUE, TRUE, <<SP>>)
    /\ cl["c1"].id \in DOMAIN sub_categories

\* --- micro category delete: the meta row

\* C14: microCategoryApi.delete first issues the meta delete keyed by
\* micro_categories; the retry keyed by micro_category_id is issued exactly
\* when that first attempt was answered with an undefined-column error, and
\* not after any other answer; a meta delete that ends in error ends the
\* call with that error, with no delete statement on micro_categories and
\* the table unchanged; the delete statement follows only a meta delete
\* that did not err.
C14_MetaDeleteFallback ==
    [][LET a == cl["c1"]
           b == cl'["c1"]
       IN  /\ CallBegins("c1", "micro.delete") =>
                 /\ b.stmts = {"meta_delete"}
                 /\ b.pc = "micro.delete.meta" <=> b.answer = "undefined_column"
           /\ "meta_delete_retry" \in b.stmts \ a.stmts =>
                 /\ a.pc = "micro.delete.meta"
                 /\ a.stmts = {"meta_delete"}
                 /\ a.answer = "undefined_column"
           /\ (a.pc = "micro.delete.meta" /\ b # a) => "meta_delete_retry" \in b.stmts
           /\ (b # a /\ b.op = "micro.delete" /\ a.pc \in {"idle", "micro.delete.meta"}
                /\ b.pc # "micro.delete.meta" /\ b.answer \in {"error", "undefined_column"}) =>
                 /\ b.pc = "idle"
                 /\ b.out = "StoreError"
                 /\ "delete" \notin b.stmts
                 /\ micro_categories' = micro_categories
           /\ (b.op = "micro.delete" /\ "delete" \in b.stmts \ a.stmts) =>
                 /\ a.pc = "micro.delete.write"
                 /\ a.answer \notin {"error", "undefined_column"}
      ]_vars

\* the column is named micro_category_id: the first meta delete failed on
\* the column, the retry removed the meta row, and the micro category was
\* then deleted
C14_Witness ==
    /\ metaColumn = "micro_category_id"
    /\ cl["c1"].op = "micro.delete"
    /\ cl["c1"].out = "ok"
    /\ cl["c1"].stmts = {"meta_delete", "meta_delete_retry", "delete"}
    /\ cl["c1"].id \notin DOMAIN micro_categories

\* C15: slug sanitization is idempotent: for every text, the dialog's
\* sanitizeSlugInput and the API's safeSlug give, applied to their own
\* result, that result again.
C15_SlugIdempotent ==
    (fn.mode = "apply" /\ Len(fn.outs) = 2) => fn.outs[2] = fn.outs[1]

\* the second text of LongTexts went through sanitizeSlugInput twice
C15_Witness ==
    /\ fn.mode = "apply"
    /\ fn.f = "sanitizeSlugInput"
    /\ fn.x \in LongTexts
    /\ fn.outs = <<(<<"a", "1", "-", "b">>), (<<"a", "1", "-", "b">>)>>

\* s is lower-case words of [a-z0-9] joined by single hyphens
C16_HyphenDelimited(s) ==
    /\ s # <<>>
    /\ \A i \in 1..Len(s) : s[i] \in LowerLetters \cup DigitChars \cup {"-"}
    /\ \A i \in 1..Len(s) : s[i] = "-" => (1 < i /\ i < Len(s) /\ s[i + 1] # "-")

\* C16: a slug sanitizer's output is empty or lower-case words of
\* [a-z0-9] joined by single hyphens, for every text; and every slug the
\* dialog passes to a save is non-empty and of that shape.
C16_SlugShape ==
    /\ fn.mode = "apply" =>
          \A i \in 1..Len(fn.outs) : fn.outs[i] = <<>> \/ C16_HyphenDelimited(fn.outs[i])
    /\ dlg.loading => C16_HyphenDelimited(input.data.slug)

\* the dialog saves the row it edits, whose stored slug was not clean,
\* after that text was typed into the slug field as well
C16_Witness ==
    /\ fn.mode = "slug"
    /\ fn.x = <<"-", "A", SP>>
    /\ dlg.loading
    /\ dlg.category # NoCategory
    /\ input.data.slug = <<"a">>
    /\ cl["c1"].op = "head.update"
    /\ cl["c1"].out = "ok"

\* the characters of s that the name keeps and that are no whitespace
C17_Kept(s) == Keep(s, NameChars \ Whitespace)

\* C17: for a name typed into the add dialog, the name passed to the save
\* is the typed name without the disallowed punctuation, with no two
\* whitespace characters in a row and none at either end, and the slug
\* passed is the slug sanitization of that name; '  Electronics!!  ' is
\* written as name 'Electronics' with slug 'electronics'.
C17_NameAndSlug ==
    (fn.mode = "name" /\ dlg.loading) =>
        LET name == input.data.name
            slug == input.data.slug
        IN  /\ \A i \in 1..Len(name) : name[i] \in NameChars
            /\ C17_Kept(name) = C17_Kept(fn.x)
            /\ \A i \in 1..(Len(name) - 1) :
                  ~(name[i] \in Whitespace /\ name[i + 1] \in Whitespace)
            /\ name # <<>>
            /\ name[1] \notin Whitespace
            /\ name[Len(name)] \notin Whitespace
            /\ slug = sanitizeSlugInput(name)
            /\ fn.x = <<SP, SP>> \o Electronics \o <<"!", "!", SP, SP>> =>
                  InsertFields(input.data) = [name |-> Electronics, slug |-> ToLowerCase(Electronics)]

\* '  Electronics!!  ' was typed and the create it led to has inserted
C17_Witness ==
    /\ fn.mode = "name"
    /\ fn.x = <<SP, SP>> \o Electronics \o <<"!", "!", SP, SP>>
    /\ dlg.loading
    /\ input.data.name = Electronics
    /\ input.data.slug = <<"e", "l", "e", "c", "t", "r", "o", "n", "i", "c", "s">>
    /\ cl["c1"].op = "head.create"
    /\ cl["c1"].out = "ok"

Abs(n) == IF n < 0 THEN -n ELSE n

\* r is an integer nearest to n / d, for d > 0
NearestTo(r, n, d) == 2 * Abs(n - r * d) <= d

\* C18: pctChange(current, previous) is null whenever previous is zero
\* or negative, whatever current is, and otherwise the rounding of
\* (current - previous) / previous * 100; pctChange(110, 100) is 10.
C18_PctChange ==
    fn.out # PendingValue =>
        /\ (fn.prev.t = "number" /\ fn.prev.v <= 0) => fn.out = JsNull
        /\ (fn.prev.t = "number" /\ fn.prev.v > 0 /\ fn.current.t = "number") =>
              /\ fn.out.t = "number"
              /\ NearestTo(fn.out.v, (fn.current.v - fn.prev.v) * 100, fn.prev.v)
        /\ (fn.current = Num(110) /\ fn.prev = Num(100)) => fn.out = Num(10)

\* pctChange(5, 3): 66.67 rounds to 67
C18_Witness == fn.current = Num(5) /\ fn.prev = Num(3) /\ fn.out = Num(67)

\* C19: the conversion rate in the response of /sales/stats is the
\* rounding of totalConverted / totalLeads * 100 when there are leads,
\* and 0 when there is none.
C19_ConversionRate ==
    stats["r1"].res.status = 200 =>
        LET s == stats["r1"].res.stats
            totalLeads == Len(leads)
            totalConverted == Cardinality({i \in DOMAIN leads : leads[i].status \in conversions})
        IN  /\ s.totalLeads = totalLeads
            /\ totalLeads > 0 => NearestTo(s.conversionRate, totalConverted * 100, totalLeads)
            /\ totalLeads = 0 => s.conversionRate = 0

\* two of three leads are converted or closed: 66.67 rounds to 67
C19_Witness ==
    /\ stats["r1"].res.status = 200
    /\ Len(leads) = 3
    /\ stats["r1"].res.stats.totalLeads = 3
    /\ stats["r1"].res.stats.conversionRate = 67

\* the sum of the numeric amounts of the rows whose column is in w
RECURSIVE C20_SumFrom(_, _, _)
C20_SumFrom(i, column, w) ==
    IF i > Len(lead_purchases) THEN 0
    ELSE (IF lead_purchases[i].amount.t = "number" /\ InWindow(lead_purchases[i][column], w)
            THEN lead_purchases[i].amount.v ELSE 0)
         + C20_SumFrom(i + 1, column, w)

\* the error says the column is missing: code 42703, or a message that
\* names purchase_date in any case of letters
C20_ColumnAbsent(error) ==
    \/ error.code = "42703"
    \/ \E i \in DOMAIN error.message : error.message[i] \in {"purchase_date", "Purchase_Date"}

\* C20: sumRevenueByPeriod queries by purchase_date first and by
\* created_at only after the first query failed with code 42703 or a
\* message naming purchase_date; any other error of the first query, or
\* an error of the second, is thrown; otherwise it returns the sum of
\* the amounts in the window, an amount that is no number counting 0.
C20_RevenueFallback ==
    [][LET a == stats["r1"].rev
           b == stats'["r1"].rev
       IN  b # a =>
             /\ a.pc \notin {"first", "fallback"} => (b.pc = "first" /\ b.stmts = <<"purchase_date">>)
             /\ a.pc = "first" =>
                   LET error == b.answers[1]
                   IN  /\ Len(b.answers) = 1
                       /\ (error = NoError) <=> (b.pc = "returned" /\ b.stmts = <<"purchase_date">>)
                       /\ (error # NoError /\ C20_ColumnAbsent(error)) <=>
                             (b.pc = "fallback" /\ b.stmts = <<"purchase_date", "created_at">>)
                       /\ (error # NoError /\ ~C20_ColumnAbsent(error)) <=>
                             (b.pc = "threw" /\ b.stmts = <<"purchase_date">>)
             /\ a.pc = "fallback" =>
                   /\ b.stmts = a.stmts
                   /\ Len(b.answers) = 2
                   /\ b.pc = IF b.answers[2] = NoError THEN "returned" ELSE "threw"
             /\ b.pc = "threw" =>
                   LET error == b.answers[Len(b.answers)]
                   IN  b.error = IF error.message = <<>> THEN FailedToLoadRevenue ELSE error.message
             /\ b.pc = "returned" => b.out = C20_SumFrom(1, b.stmts[Len(b.stmts)], b.w)
      ]_vars

\* on the old layout the call fell back to created_at and returned the
\* sum of the one numeric amount in the window, the other amount being a text
C20_Witness ==
    /\ purchaseSchema = "created_at"
    /\ stats["r1"].rev.pc = "returned"
    /\ stats["r1"].rev.stmts = <<"purchase_date", "created_at">>
    /\ stats["r1"].rev.answers = <<MissingPurchaseDate, NoError>>
    /\ Len(lead_purchases) = 2
    /\ lead_purchases[1].amount = Text(4)
    /\ lead_purchases[2].amount = Num(2)
    /\ InWindow(lead_purchases[1].created_at, stats["r1"].rev.w)
    /\ stats["r1"].rev.out = 2

\* the fields of the stats object
C21_StatsFields ==
    {"totalLeads", "conversionRate", "newLeads7d", "newLeadsPrev7d", "converted7d",
     "convertedPrev7d", "revenue7d", "revenuePrev7d", "newLeadsTrendPct",
     "convertedTrendPct", "revenueTrendPct"}

\* C21: when one of the six count queries answers an error, or either
\* revenue sum throws, the response of /sales/stats is an error with
\* success false and no stats object; a response with statistics comes
\* only after all six counts and both sums succeeded, and is complete.
C21_AllOrNothing ==
    LET s == stats["r1"]
        failed == \/ \E q \in CountQuerySet : s.counts[q].error # NoError
                  \/ s.rev.pc = "threw"
    IN  s.res # NoResponse =>
          /\ s.pc = "done"
          /\ failed => (s.res.status = 500 /\ ~s.res.success /\ s.res.stats = <<>> /\ s.res.error # <<>>)
          /\ s.res.stats # <<>> =>
                /\ s.res.status = 200
                /\ s.res.success
                /\ \A q \in CountQuerySet : s.counts[q].settled /\ s.counts[q].error = NoError
                /\ s.rev.pc = "returned"
                /\ s.rev.w = PreviousWindow(s.now)
                /\ DOMAIN s.res.stats = C21_StatsFields

\* only the last of the six count queries failed, and the request was
\* answered 500
C21_Witness ==
    LET s == stats["r1"]
    IN  /\ s.res.status = 500
        /\ s.counts["convertedPrev7"].error # NoError
        /\ \A q \in CountQuerySet \ {"convertedPrev7"} :
              s.counts[q].settled /\ s.counts[q].error = NoError

\* ---------------------------------------------------------------------
\* C29: in every state of the dialog, removeImage set means that no file
\* is selected, that the URL field is empty and that the edited category
\* has an image; and no selection of a file the gate accepts, and no
\* typing of a URL that is not empty once cleaned, ends in a state with
\* removeImage set.
C29_RemoveImageExclusive ==
    /\ [](dlg.removeImage =>
            /\ dlg.imageFile = NoFile
            /\ dlg.formData.image_url = <<>>
            /\ dlg.category # NoCategory
            /\ StrOrEmpty(dlg.category.image_url) # <<>>)
    /\ [][dlg'.removeImage =>
            /\ \A f \in DialogFiles :
                  (f # NoFile /\ ImageFileAccepted(f)) => ~ImageFileChange(f)
            /\ \A value \in DialogUrlInputs :
                  sanitizeImageUrl(value) # <<>> => ~ImageUrlChange(value)]_vars

\* the existing image of the edited category is marked for removal
C29_Witness ==
    /\ dlg.isOpen
    /\ dlg.removeImage
    /\ dlg.category.image_url = <<"https:", "//h">>
    /\ dlg.imageFile = NoFile
    /\ dlg.formData.image_url = <<>>

\* ---------------------------------------------------------------------
\* C26: microCategoryApi.delete is all-or-nothing: when the call raises,
\* neither the micro category row nor its meta row has been removed.
\* Stated for the first call made on the table, which no other call
\* overlaps.
C26_DeleteAllOrNothing ==
    \A c \in Clients :
        (/\ calls = 1
         /\ cl[c].op = "micro.delete"
         /\ cl[c].pc = "idle"
         /\ cl[c].out # "ok")
          => /\ micro_categories = DeleteMicros
             /\ micro_category_meta = DeleteMeta

\* ---------------------------------------------------------------------
\* C30: two clients delete the same childless category, these being the
\* only two calls: the row is never reported as deleted by both, and
\* when the store answers every statement without a fault exactly one
\* call returns and the other raises 'Delete failed'.
C30_Childless == [head |-> IdOf(1), sub |-> IdOf(2), micro |-> IdOf(1)]

C30_DeleteOps == {"head.delete", "sub.delete", "micro.delete"}

C30_SameRowDeleted(op) ==
    /\ calls = 2
    /\ \A c \in Clients :
          /\ cl[c].op = op
          /\ cl[c].pc = "idle"
          /\ cl[c].id = (CASE op = "head.delete" -> C30_Childless.head
                           [] op = "sub.delete" -> C30_Childless.sub
                           [] OTHER -> C30_Childless.micro)

C30_ExactlyOneDeletes ==
    \A op \in C30_DeleteOps :
        C30_SameRowDeleted(op) =>
            /\ \E c \in Clients : cl[c].out # "ok"
            /\ (\A c \in Clients : cl[c].answer = "none")
                 => \E c, d \in Clients :
                        /\ c # d
                        /\ cl[c].out = "ok"
                        /\ cl[c].affected = 1
                        /\ cl[d].out = "DeleteFailed"

\* both clients have deleted micro category 1, the first with success
C30_Witness ==
    /\ C30_SameRowDeleted("micro.delete")
    /\ cl["c1"].out = "DeleteFailed"
    /\ cl["c2"].out = "ok"
    /\ IdOf(1) \notin DOMAIN micro_categories

\* ---------------------------------------------------------------------
\* C22: every sales endpoint requires a sales, admin or superadmin role.
\* A request whose session role and employee role are both outside
\* SALES_ROLES is answered 403, and one whose session resolves to no
\* employee is answered 404 (500 when the profile lookup throws, 404
\* when the store fails it); neither is ever admitted, so it issues no
\* statement on leads, lead_purchases or vendor_plans.

\* the employees a session resolves to: by user id, else by e-mail
C22_EmployeesOf(u) ==
    LET id == Trim(StrOrEmpty(u.id))
        mail == ToLowerCase(Trim(StrOrEmpty(u.email)))
        byId == {e \in DOMAIN StatsEmployees : StatsEmployees[e].user_id = id}
        byMail == {e \in DOMAIN StatsEmployees : mail # <<>> /\ StatsEmployees[e].email = mail}
    IN  IF byId # {} THEN byId ELSE byMail

C22_Outside(role) == normalizeRole(role) \notin SALES_ROLES

C22_Denied(u) ==
    /\ C22_EmployeesOf(u) # {}
    /\ C22_Outside(u.role)
    /\ \A e \in C22_EmployeesOf(u) : C22_Outside(StatsEmployees[e].role)

C22_Unknown(u) == C22_EmployeesOf(u) = {}

C22_SalesRoutes == {"leads", "status", "pricing"}

\* what a refused request is answered
C22_Refused(u, failed, res) ==
    /\ ~res.success
    /\ res.status \in {403, 404, 500}
    /\ ~failed => res.status = (IF C22_Unknown(u) THEN 404 ELSE 403)
    /\ res.status = 403 => res.error = SalesAccessRequired
    /\ res.status = 404 => res.error = EmployeeProfileNotFound

C22_SalesAccessRequired ==
    /\ (req.route \in C22_SalesRoutes /\ (C22_Denied(req.user) \/ C22_Unknown(req.user)))
          => /\ req.pc = "done"
             /\ req.stmts = <<>>
             /\ Len(req.responses) = 1
             /\ C22_Refused(req.user, req.failed, req.responses[1])
    /\ LET s == stats["r1"]
       IN  (s.pc # "idle" /\ (C22_Denied(s.user) \/ C22_Unknown(s.user)))
              => /\ s.pc = "done"
                 /\ \A q \in CountQuerySet : ~s.counts[q].settled
                 /\ s.rev = NoRevenue
                 /\ C22_Refused(s.user, s.failed, s.res)

\* the vendor who is the data entry employee has asked for a status
\* update and has been refused
C22_Witness ==
    /\ req.route = "status"
    /\ req.pc = "done"
    /\ req.user.role = "vendor"
    /\ C22_Denied(req.user)
    /\ ~req.failed
    /\ req.responses[1].status = 403
    /\ req.stmts = <<>>

\* ---------------------------------------------------------------------
\* C23: a lead-status update that matches zero rows surfaces as a
\* failure: the response to PATCH /sales/leads/:leadId/status with a
\* leadId that matches no lead never has success true.
C23_ZeroRowsFail ==
    (/\ req.route = "status"
     /\ req.pc = "done"
     /\ LeadsById(Trim(req.leadId)) = {})
      => \A i \in DOMAIN req.responses : ~req.responses[i].success

\* ---------------------------------------------------------------------
\* C24: every request ends with exactly one response, and a request
\* that the store, the storage or the client failed is answered with an
\* error: success false, or the error text from the chat webhook.
C24_AnswersError(route, res) ==
    IF route = "chat" THEN res.text = "server_error" ELSE ~res.success

C24_FailuresReported ==
    /\ req.pc = "done" =>
          /\ Len(req.responses) = 1
          /\ req.failed => C24_AnswersError(req.route, req.responses[1])
    /\ req.pc # "done" => req.responses = <<>>
    /\ LET s == stats["r1"]
           failed == \/ s.failed
                     \/ \E q \in CountQuerySet : s.counts[q].error # NoError
                     \/ s.rev.pc = "threw"
       IN  /\ s.pc = "done" <=> s.res # NoResponse
           /\ (s.pc = "done" /\ failed) => ~s.res.success

\* ---------------------------------------------------------------------
\* C25: the reply of the FAQ responder is a function of the latest
\* message alone: the reply of the first rule, in the order greeting,
\* vendor, lead, price, support, otp, payment, one of whose keywords
\* occurs in the lower-cased text; the clarification prompt when none
\* does; another prompt when the text is empty.
C25_Rules ==
    <<[reply |-> "greeting", keywords |-> {<<"h", "e", "l", "l", "o">>, <<"h", "i">>, <<"n", "a", "m", "a", "s", "t", "e">>}],
      [reply |-> "vendor", keywords |-> {<<"v", "e", "n", "d", "o", "r">>, <<"s", "u", "p", "p", "l", "i", "e", "r">>}],
      [reply |-> "lead", keywords |-> {<<"l", "e", "a", "d">>, <<"l", "e", "a", "d", "s">>}],
      [reply |-> "price", keywords |-> {<<"p", "r", "i", "c", "e">>, <<"p", "l", "a", "n">>, <<"m", "e", "m", "b", "e", "r", "s", "h", "i", "p">>}],
      [reply |-> "support", keywords |-> {<<"s", "u", "p", "p", "o", "r", "t">>, <<"h", "e", "l", "p">>}],
      [reply |-> "otp", keywords |-> {<<"o", "t", "p">>}],
      [reply |-> "payment", keywords |-> {<<"p", "a", "y", "m", "e", "n", "t">>, <<"r", "a", "z", "o", "r", "p", "a", "y">>}]>>

\* the text of a message: its text field, else its content
C25_TextOf(m) ==
    Trim(IF StrOrEmpty(m.text) # <<>> THEN m.text ELSE StrOrEmpty(m.content))

C25_Expected(text) ==
    LET hits == {i \in DOMAIN C25_Rules :
                    \E k \in C25_Rules[i].keywords : Includes(ToLowerCase(text), k)}
    IN  IF text = <<>> THEN "empty"
        ELSE IF hits = {} THEN "clarify"
        ELSE C25_Rules[CHOOSE i \in hits : \A j \in hits : i <= j].reply

C25_FaqReply ==
    (/\ req.route = "chat"
     /\ req.event.httpMethod = "POST"
     /\ req.event.body.kind = "object")
      => LET messages == req.event.body.messages
             text == IF messages = <<>> THEN <<>> ELSE C25_TextOf(messages[Len(messages)])
         IN  /\ Len(req.responses) = 1
             /\ req.responses[1].status = 200
             /\ req.responses[1].text = C25_Expected(text)

\* a conversation that began with a greeting and goes on about leads and
\* prices is answered by the lead rule
C25_Witness ==
    /\ req.route = "chat"
    /\ Len(req.event.body.messages) = 2
    /\ req.event.body.messages[1].text = <<"H", "i">>
    /\ req.event.body.messages[2].text = <<"L", "E", "A", "D", SP, "p", "r", "i", "c", "e">>
    /\ req.responses[1].text = "lead"

\* ---------------------------------------------------------------------
\* C27: the conversionRate of every successful /sales/stats response lies
\* between 0 and 100, also when leads are inserted or change status
\* while the count queries are answered.
C27_RateInRange ==
    LET s == stats["r1"]
    IN  (s.pc = "done" /\ s.res.success)
          => (s.res.stats.conversionRate >= 0 /\ s.res.stats.conversionRate <= 100)

\* ---------------------------------------------------------------------
\* C28: the previous window is [start7 - 7 days, start7) and the current
\* window [start7, now], start7 being the start of the day six days before
\* now: every lead and purchase dated from the start of the previous
\* window to now is counted in exactly one of them, one dated exactly
\* start7 in the current window only, and the revenue sums use the
\* windows of the lead counts.
C28_Start7(now) == HoursPerDay * ((now \div HoursPerDay) - 6)

C28_InCurrent(at, now) == C28_Start7(now) <= at /\ at <= now

C28_InPrevious(at, now) == C28_Start7(now) - 7 * HoursPerDay <= at /\ at < C28_Start7(now)

C28_Count(S) == Cardinality(S)

C28_Sum(in) == IF in THEN safeNum(lead_purchases[1].amount) ELSE 0

C28_Windows ==
    LET s == stats["r1"]
        st == s.res.stats
        at == leads[1].created_at
        paidAt == lead_purchases[1][purchaseSchema]
        current == {i \in DOMAIN leads : C28_InCurrent(leads[i].created_at, s.now)}
        previous == {i \in DOMAIN leads : C28_InPrevious(leads[i].created_at, s.now)}
    IN  (s.pc = "done" /\ s.res.success) =>
          /\ current \cap previous = {}
          /\ st.newLeads7d = C28_Count(current)
          /\ st.newLeadsPrev7d = C28_Count(previous)
          /\ st.converted7d = C28_Count(current)
          /\ st.convertedPrev7d = C28_Count(previous)
          /\ st.revenue7d = C28_Sum(C28_InCurrent(paidAt, s.now))
          /\ st.revenuePrev7d = C28_Sum(C28_InPrevious(paidAt, s.now))
          /\ (C28_Start7(s.now) - 7 * HoursPerDay <= at /\ at <= s.now)
                => st.newLeads7d + st.newLeadsPrev7d = 1
          /\ at = C28_Start7(s.now) => (st.newLeads7d = 1 /\ st.newLeadsPrev7d = 0)
          /\ (at < C28_Start7(s.now) - 7 * HoursPerDay \/ at > s.now)
                => st.newLeads7d + st.newLeadsPrev7d = 0

\* the lead and the purchase are dated exactly start7 and are counted in
\* the current window
C28_Witness ==
    LET s == stats["r1"]
    IN  /\ s.pc = "done"
        /\ s.res.success
        /\ leads[1].created_at = C28_Start7(s.now)
        /\ s.res.stats.newLeads7d = 1
        /\ s.res.stats.newLeadsPrev7d = 0
        /\ s.res.stats.revenue7d = 2
        /\ s.res.stats.revenuePrev7d = 0

====
